---- MODULE Spec2Model ----
(***************************************************************************)
(* Model of the stateful components of the universal-bot plugins:         *)
(*   - the Home Assistant plugin's alias resolution, light, to-do and      *)
(*     wake commands (src/homeassistant/plugin.py),                        *)
(*   - the YouTube plugin's chunked summarization pipeline with model      *)
(*     fallback, its runtime configuration and its transcript cache        *)
(*     (src/youtube/plugin.py),                                            *)
(*   - the speech-to-text plugin's in-flight bookkeeping                   *)
(*     (src/stt_openai/plugin.py), and                                     *)
(*   - the SimpleX plugin's admin commands (src/simplex/plugin.py).        *)
(*                                                                         *)
(* Python strings are sequences of one-character strings.  The tokens     *)
(* "e_acute" and "E_ACUTE" stand for the single characters U+00E9 and     *)
(* U+00C9 (alphabetic, not ASCII).                                         *)
(***************************************************************************)
EXTENDS Integers, Sequences, FiniteSets, Bags, TLC

VARIABLES
    \* _find_entities_by_alias: its arguments, its result, its position
    entities, search_term, matching_entities, alias_pc,
    \* _extract_aliases_from_name: its argument, its result, its position
    label, aliases, extract_pc,
    \* _chunk_text: its arguments, its locals, its position
    text, chunk_size, overlap, start, chunks, chunk_pc,
    \* the YouTube plugin's configuration: self.config and config.yaml, and
    \* what the last _set_config call returned
    config, config_file, set_reply,
    \* one _summarize_with_ai invocation
    transcript_len, api_key, sum_pc, sum_chunks, chunk_index, fallback_models,
    attempt, chunk_summaries, summary, api_calls, chunk_text_called,
    \* how the last model call ended, and self.config as it was when the
    \* invocation started
    last_outcome, config_at_call,
    \* the YouTube plugin's transcript cache: self.transcript_cache,
    \* self.last_processed_video, config["cache"]["max_cached_per_room"],
    \* config["features"]["caching_enabled"], the command handlers waiting at
    \* an await, and whether "Transcript not found" was ever replied
    transcript_cache, last_processed_video, max_cached_per_room, caching_enabled, handlers,
    not_found_replied,
    \* one Home Assistant command (!ha light, switch, todo, wake): where its
    \* handler is, its arguments with the entities looked up, the position of
    \* its loop, the service calls it has made, and its reply
    ha_pc, ha_request, ha_index, service_calls, ha_reply,
    \* the STT plugin: self.processing_audio, the handle_downloaded_audio calls
    \* that wait for _transcribe_audio, and time.time() in milliseconds
    processing_audio, transcribing, clock,
    \* the SimpleX plugin's !admin command: the admins the admin manager holds,
    \* the reply of the last command and the name it passed to remove_admin
    admins, admin_reply, remove_called

aliasVars == <<entities, search_term, matching_entities, alias_pc, label, aliases, extract_pc>>
chunkVars == <<text, chunk_size, overlap, start, chunks, chunk_pc>>
configVars == <<config, config_file, set_reply>>
sumVars == <<transcript_len, api_key, sum_pc, sum_chunks, chunk_index, fallback_models,
             attempt, chunk_summaries, summary, api_calls, chunk_text_called,
             last_outcome, config_at_call>>
cacheVars == <<transcript_cache, last_processed_video, max_cached_per_room, caching_enabled,
               handlers, not_found_replied>>
haVars == <<ha_pc, ha_request, ha_index, service_calls, ha_reply>>
sttVars == <<processing_audio, transcribing, clock>>
adminVars == <<admins, admin_reply, remove_called>>
\* The variables of the components added to the first four, and for each of
\* them the variables of all the other components
moreVars == <<cacheVars, haVars, sttVars, adminVars>>
notCacheVars == <<aliasVars, chunkVars, configVars, sumVars, haVars, sttVars, adminVars>>
notHaVars == <<aliasVars, chunkVars, configVars, sumVars, cacheVars, sttVars, adminVars>>
notSttVars == <<aliasVars, chunkVars, configVars, sumVars, cacheVars, haVars, adminVars>>
notAdminVars == <<aliasVars, chunkVars, configVars, sumVars, cacheVars, haVars, sttVars>>
vars == <<aliasVars, chunkVars, configVars, sumVars, moreVars>>

(***************************************************************************)
(* Bounds of the model.                                                    *)
(***************************************************************************)
MaxEntities == 2

(***************************************************************************)
(* Python string primitives.                                               *)
(***************************************************************************)
UpperChars == <<"A", "B", "C", "D", "E", "F", "G", "H", "I", "J", "K", "L", "M",
                "N", "O", "P", "Q", "R", "S", "T", "U", "V", "W", "X", "Y", "Z", "E_ACUTE">>
LowerChars == <<"a", "b", "c", "d", "e", "f", "g", "h", "i", "j", "k", "l", "m",
                "n", "o", "p", "q", "r", "s", "t", "u", "v", "w", "x", "y", "z", "e_acute">>
DigitChars == {"0", "1", "2", "3", "4", "5", "6", "7", "8", "9"}
SpaceChars == {" ", "\t"}
PunctChars == {"(", ")", "[", "]", "{", "}", ".", ",", "!", "?", "\"", ":", ";"}

Range(s) == {s[i] : i \in DOMAIN s}

\* str.lower() on one character
LowerChar(c) ==
    IF \E i \in DOMAIN UpperChars : UpperChars[i] = c
    THEN LowerChars[CHOOSE i \in DOMAIN UpperChars : UpperChars[i] = c]
    ELSE c

\* str.lower()
Lower(s) == [i \in DOMAIN s |-> LowerChar(s[i])]

\* s.lstrip(cs)
RECURSIVE LStrip(_, _)
LStrip(s, cs) ==
    IF s # <<>> /\ Head(s) \in cs THEN LStrip(Tail(s), cs) ELSE s

\* s.rstrip(cs)
RECURSIVE RStrip(_, _)
RStrip(s, cs) ==
    IF s # <<>> /\ s[Len(s)] \in cs THEN RStrip(SubSeq(s, 1, Len(s) - 1), cs) ELSE s

\* s.strip(cs); s.strip() is StripChars(s, SpaceChars)
StripChars(s, cs) == RStrip(LStrip(s, cs), cs)

\* s.replace(old, new) for single characters
Replace(s, old, new) == [i \in DOMAIN s |-> IF s[i] = old THEN new ELSE s[i]]

\* s.split(sep) for a one-character separator: empty segments are kept.
\* cur is the segment being read, acc the segments already closed.
RECURSIVE SplitOnFrom(_, _, _, _)
SplitOnFrom(s, sep, cur, acc) ==
    IF s = <<>> THEN Append(acc, cur)
    ELSE IF Head(s) = sep THEN SplitOnFrom(Tail(s), sep, <<>>, Append(acc, cur))
    ELSE SplitOnFrom(Tail(s), sep, Append(cur, Head(s)), acc)

SplitOn(s, sep) == SplitOnFrom(s, sep, <<>>, <<>>)

\* s.split(): split on runs of whitespace, no empty words
RECURSIVE SplitWSFrom(_, _, _)
SplitWSFrom(s, cur, acc) ==
    IF s = <<>> THEN (IF cur = <<>> THEN acc ELSE Append(acc, cur))
    ELSE IF Head(s) \in SpaceChars
         THEN SplitWSFrom(Tail(s), <<>>, IF cur = <<>> THEN acc ELSE Append(acc, cur))
    ELSE SplitWSFrom(Tail(s), Append(cur, Head(s)), acc)

SplitWS(s) == SplitWSFrom(s, <<>>, <<>>)

\* A containment test that looks at the start of s only
IsSubstring_Prefix(t, s) == Len(t) <= Len(s) /\ SubSeq(s, 1, Len(t)) = t

\* t in s, for strings
IsSubstring(t, s) ==
    \E i \in 1..(Len(s) - Len(t) + 1) : SubSeq(s, i, i + Len(t) - 1) = t

\* x in lst, for a list of strings
InList(x, lst) == \E i \in DOMAIN lst : lst[i] = x

IsDigit(w) == w # <<>> /\ \A i \in DOMAIN w : w[i] \in DigitChars
IsAlpha(w) == w # <<>> /\ \A i \in DOMAIN w : w[i] \in Range(LowerChars) \cup Range(UpperChars)
IsAscii(w) == \A i \in DOMAIN w : w[i] \notin {"e_acute", "E_ACUTE"}

(***************************************************************************)
(* Home Assistant plugin: alias extraction and entity lookup.              *)
(***************************************************************************)
\* stop_words of _extract_aliases_from_name
stop_words ==
    {<<"l", "i", "g", "h", "t">>, <<"l", "a", "m", "p">>, <<"b", "u", "l", "b">>,
     <<"s", "w", "i", "t", "c", "h">>, <<"t", "h", "e">>, <<"a">>, <<"a", "n">>,
     <<"a", "n", "d">>, <<"o", "r">>, <<"o", "f">>, <<"i", "n">>, <<"o", "n">>,
     <<"a", "t">>, <<"t", "o">>, <<"f", "o", "r">>, <<"w", "a", "k", "e">>,
     <<"w", "o", "l">>, <<"l", "a", "n">>, <<"b", "u", "t", "t", "o", "n">>,
     <<"s", "e", "n", "s", "o", "r">>, <<"p", "i", "n", "g">>, <<"i", "c", "m", "p">>,
     <<"b", "i", "n", "a", "r", "y">>, <<"t", "o", "d", "o">>, <<"l", "i", "s", "t">>}

\* An entity is [entity_id, name_kind, friendly_name]: name_kind says whether
\* attributes holds a string under 'friendly_name' ("str"), holds None ("null")
\* or has no such key ("missing"); friendly_name is the string when there is one.

\* The body of the word loop: the words kept among ws, in order.
RECURSIVE KeepWords(_)
KeepWords(ws) ==
    IF ws = <<>> THEN <<>>
    ELSE LET word == StripChars(Head(ws), PunctChars)
             keep == /\ word # <<>>
                     /\ ~IsDigit(word)
                     /\ word \notin stop_words
                     /\ IsAscii(word)
                     /\ IsAlpha(word)
         IN  (IF keep THEN <<word>> ELSE <<>>) \o KeepWords(Tail(ws))

\* An extraction that forgets name.lower()
ExtractAliasesFromName_NoLower(name_kind, name) ==
    IF name_kind # "str" \/ name = <<>> THEN <<>>
    ELSE KeepWords(SplitWS(name))

\* _extract_aliases_from_name(name); "not name" holds for None and for ''.
ExtractAliasesFromName(name_kind, name) ==
    IF name_kind # "str" \/ name = <<>> THEN <<>>
    ELSE KeepWords(SplitWS(Lower(name)))

\* entity.attributes.get('friendly_name', ''): the kind and the value obtained
GetNameKind(e) == IF e.name_kind = "missing" THEN "str" ELSE e.name_kind
GetName(e) == IF e.name_kind = "str" THEN e.friendly_name ELSE <<>>

\* Entity parts taken from the domain, the segment before the '.'
EntityParts_Domain(entity_id) ==
    IF InList(".", entity_id)
    THEN SplitWS(Replace(SplitOn(entity_id, ".")[1], "_", " "))
    ELSE <<>>

\* entity_parts of the first pass
EntityParts(entity_id) ==
    IF InList(".", entity_id)
    THEN SplitWS(Replace(SplitOn(entity_id, ".")[2], "_", " "))
    ELSE <<>>

\* all_aliases of the first pass
AllAliases(e) ==
    EntityParts(Lower(e.entity_id)) \o ExtractAliasesFromName(GetNameKind(e), GetName(e))

\* First pass: the entities with the term among their aliases, in order.
RECURSIVE ExactPass(_, _)
ExactPass(es, term) ==
    IF es = <<>> THEN <<>>
    ELSE (IF InList(term, AllAliases(Head(es))) THEN <<Head(es)>> ELSE <<>>)
         \o ExactPass(Tail(es), term)

\* A second pass that looks at the friendly name only
RECURSIVE PartialPass_NameOnly(_, _)
PartialPass_NameOnly(es, term) ==
    IF es = <<>> THEN <<>>
    ELSE (IF IsSubstring(term, Lower(GetName(Head(es)))) THEN <<Head(es)>> ELSE <<>>)
         \o PartialPass_NameOnly(Tail(es), term)

\* Second pass: the entities with the term inside the id or the friendly name.
RECURSIVE PartialPass(_, _)
PartialPass(es, term) ==
    IF es = <<>> THEN <<>>
    ELSE (IF \/ IsSubstring(term, Lower(Head(es).entity_id))
             \/ IsSubstring(term, Lower(GetName(Head(es))))
          THEN <<Head(es)>> ELSE <<>>)
         \o PartialPass(Tail(es), term)

\* The second pass calls .lower() on the value it got: None raises AttributeError.
PartialPassRaises(es) == \E i \in DOMAIN es : es[i].name_kind = "null"

\* A lookup that runs the second pass whatever the first pass found
FindEntitiesByAlias_BothPasses(es, raw_term) ==
    LET term == StripChars(Lower(raw_term), SpaceChars)
    IN  IF PartialPassRaises(es) THEN [raised |-> TRUE, value |-> <<>>]
        ELSE [raised |-> FALSE, value |-> ExactPass(es, term) \o PartialPass(es, term)]

\* _find_entities_by_alias(entities, search_term): [raised, value]
FindEntitiesByAlias(es, raw_term) ==
    LET term == StripChars(Lower(raw_term), SpaceChars)
        exact == ExactPass(es, term)
    IN  IF exact # <<>> THEN [raised |-> FALSE, value |-> exact]
        ELSE IF PartialPassRaises(es) THEN [raised |-> TRUE, value |-> <<>>]
        ELSE [raised |-> FALSE, value |-> PartialPass(es, term)]

(***************************************************************************)
(* YouTube plugin: _chunk_text.                                            *)
(***************************************************************************)
\* Iterations the model follows a loop of _chunk_text that does not end
MaxSpin == 2
MaxTextLen == 6
MaxChunkSize == 3

Min(a, b) == IF a < b THEN a ELSE b
Max(a, b) == IF a > b THEN a ELSE b

\* A slice index of Python, for a string of length n: negative indices count
\* from the end, and every index is clipped to 0..n.
SliceIndex(i, n) == IF i < 0 THEN Max(n + i, 0) ELSE Min(i, n)

\* A slice that takes the character at b as well
PySlice_Inclusive(s, a, b) ==
    LET lo == SliceIndex(a, Len(s))
        hi == SliceIndex(b + 1, Len(s))
    IN  IF lo < hi THEN SubSeq(s, lo + 1, hi) ELSE <<>>

\* s[a:b]
PySlice(s, a, b) ==
    LET lo == SliceIndex(a, Len(s))
        hi == SliceIndex(b, Len(s))
    IN  IF lo < hi THEN SubSeq(s, lo + 1, hi) ELSE <<>>

\* A next start that forgets the overlap
NextStart_NoOverlap(end, ov) == end

\* A next start one character too far back
NextStart_OneBack(end, ov) == end - ov - 1

\* start = end - overlap
NextStart(end, ov) == end - ov

\* The entry of _chunk_text: a text that fits is returned as the only chunk.
ChunkTextCall ==
    /\ chunk_pc = "call"
    /\ IF Len(text) <= chunk_size
       THEN /\ chunks' = <<text>>
            /\ chunk_pc' = "return"
            /\ start' = start
       ELSE /\ chunks' = <<>>
            /\ chunk_pc' = "loop"
            /\ start' = 0
    /\ UNCHANGED <<text, chunk_size, overlap>>
    /\ UNCHANGED <<aliasVars, configVars, sumVars, moreVars>>

\* One iteration of the while loop of _chunk_text.  A text of n characters
\* is cut into at most n chunks when the start advances; the model follows a
\* loop for MaxSpin iterations more than that.
ChunkTextLoop ==
    /\ chunk_pc = "loop"
    /\ Len(chunks) < Len(text) + MaxSpin
    /\ IF start < Len(text)
       THEN LET end == start + chunk_size
            IN  /\ chunks' = Append(chunks, PySlice(text, start, end))
                /\ IF end >= Len(text)
                   THEN /\ chunk_pc' = "return"
                        /\ start' = start
                   ELSE /\ chunk_pc' = "loop"
                        /\ start' = NextStart(end, overlap)
       ELSE /\ chunk_pc' = "return"
            /\ UNCHANGED <<chunks, start>>
    /\ UNCHANGED <<text, chunk_size, overlap>>
    /\ UNCHANGED <<aliasVars, configVars, sumVars, moreVars>>

(***************************************************************************)
(* YouTube plugin: the configuration, self.config and config.yaml.         *)
(* A configuration holds the keys the summarization reads; an optional    *)
(* fallback list is [set, list], set saying whether the key is there.      *)
(***************************************************************************)
DefaultChunkSize == 8000
DefaultChunkOverlap == 800
DefaultMaxChunks == 50

NoFallback == [set |-> FALSE, list |-> <<>>]

\* _get_default_config
DefaultConfig ==
    [ai |-> [chunk_model |-> "mistral", final_model |-> "mistral",
             fallback_models |-> [chunk |-> NoFallback, final |-> NoFallback]],
     processing |-> [chunk_size |-> DefaultChunkSize,
                     chunk_overlap |-> DefaultChunkOverlap,
                     max_chunks |-> DefaultMaxChunks]]

\* self.config.get("ai", {}).get("fallback_models", {}).get(kind, [<kind>_model])
FallbackModels(cfg, kind) ==
    IF cfg.ai.fallback_models[kind].set
    THEN cfg.ai.fallback_models[kind].list
    ELSE <<IF kind = "chunk" THEN cfg.ai.chunk_model ELSE cfg.ai.final_model>>

\* _load_config: the content of config.yaml, the defaults when there is none
LoadConfig(file) == IF file.exists THEN file.content ELSE DefaultConfig

(***************************************************************************)
(* YouTube plugin: _summarize_with_ai and the three fallback loops.        *)
(* An Optional[str] is [none, text]; the text a model returns is one       *)
(* symbol naming the call that produced it.                                *)
(***************************************************************************)
MaxSinglePassLength == 25000
DefaultMaxCached == 5

NoneVal == [none |-> TRUE, text |-> <<>>]
Str(s) == [none |-> FALSE, text |-> s]

\* A test that takes the empty string for a result
Truthy_NotNone(v) == ~v.none

\* "if result:" - neither None nor the empty string
Truthy(v) == ~v.none /\ v.text # <<>>

\* What one HTTP exchange of _make_api_call can end in: status 200 with a
\* text, status 200 with a text that is empty once stripped, another status,
\* an exception raised by the transport (a timeout is one).
Outcomes == {"ok", "empty", "http_error", "exception", "timeout"}

Content(call_type, chunk_num, model) ==
    <<[call_type |-> call_type, chunk_num |-> chunk_num, model |-> model]>>

\* The "\n\n" between two chunk summaries
Separator == [call_type |-> "separator", chunk_num |-> 0, model |-> ""]

\* _make_api_call: the stripped content on status 200, None otherwise
MakeApiCall(outcome, call_type, chunk_num, model) ==
    CASE outcome = "ok" -> Str(Content(call_type, chunk_num, model))
      [] outcome = "empty" -> Str(<<>>)
      [] OTHER -> NoneVal

\* "\n\n".join(chunk_summaries)
RECURSIVE Join(_)
Join(sums) ==
    IF sums = <<>> THEN <<>>
    ELSE IF Len(sums) = 1 THEN sums[1]
    ELSE sums[1] \o <<Separator>> \o Join(Tail(sums))

\* The chunks of _chunk_text for a text of n characters, each as the span
\* [start, end) of the text it holds.
RECURSIVE ChunkSpansFrom(_, _, _, _)
ChunkSpansFrom(n, size, ov, from) ==
    IF from >= n THEN <<>>
    ELSE LET end == from + size
         IN  <<[start |-> from, end |-> Min(end, n)]>>
             \o (IF end >= n THEN <<>> ELSE ChunkSpansFrom(n, size, ov, NextStart(end, ov)))

ChunkSpans(n, size, ov) ==
    IF n <= size THEN <<[start |-> 0, end |-> n]>> ELSE ChunkSpansFrom(n, size, ov, 0)

\* The loop of _chunk_text never ends: the start does not advance.
ChunkTextDiverges(n, size, ov) == n > size /\ ov >= size

\* A limit that lets every chunk through
LimitChunks_Off(cs, max_chunks) == cs

\* chunks[:max_chunks] when len(chunks) > max_chunks
LimitChunks(cs, max_chunks) ==
    IF Len(cs) > max_chunks THEN SubSeq(cs, 1, max_chunks) ELSE cs

\* A fallback loop that tries the first model of the list again and again
ModelAt_First(models, att) == models[1]

\* The model tried at an attempt of a fallback loop, and the attempt after it
ModelAt(models, att) == models[att]
NextAttempt(att) == att + 1

SumGoto(pc, idx, models, att, sums, res) ==
    /\ sum_pc' = pc
    /\ chunk_index' = idx
    /\ fallback_models' = models
    /\ attempt' = att
    /\ chunk_summaries' = sums
    /\ summary' = res

\* summarize returns res
Finish(res, sums) == SumGoto("done", 0, <<>>, 0, sums, res)

\* _chunked_summarize, the test of what _create_final_summary returned
FinalReturn(final_summary) == IF Truthy(final_summary) THEN final_summary ELSE NoneVal

\* A merge step that gives up when no model of the list gave a text
CombinedSummaries_None(sums) == NoneVal

\* _create_final_summary when no model of the list gave a text (and when
\* there is no API key): the combined chunk summaries are returned
CombinedSummaries(sums) == Str(Join(sums))

\* _create_final_summary up to its first model call
CreateFinalSummary(sums) ==
    LET models == FallbackModels(config, "final")
    IN  IF ~api_key \/ models = <<>>
        THEN Finish(FinalReturn(CombinedSummaries(sums)), sums)
        ELSE SumGoto("final", 0, models, 1, sums, summary)

\* A chunked path that gives up as soon as one chunk has no summary
AfterChunkLoop_AllOrNothing(sums) ==
    IF sums = <<>> \/ Len(sums) < Len(sum_chunks') THEN Finish(NoneVal, sums)
    ELSE IF Len(sums) > 1 THEN CreateFinalSummary(sums)
    ELSE Finish(Str(sums[1]), sums)

\* A chunked path that merges even a single chunk summary
AfterChunkLoop_AlwaysMerge(sums) ==
    IF sums = <<>> THEN Finish(NoneVal, sums)
    ELSE CreateFinalSummary(sums)

\* A merge that is handed the chunk summaries last chunk first
AfterChunkLoop_Reversed(sums) ==
    IF sums = <<>> THEN Finish(NoneVal, sums)
    ELSE IF Len(sums) > 1
    THEN CreateFinalSummary([i \in 1..Len(sums) |-> sums[Len(sums) + 1 - i]])
    ELSE Finish(Str(sums[1]), sums)

\* _chunked_summarize after the loop over the chunks
AfterChunkLoop(sums) ==
    IF sums = <<>> THEN Finish(NoneVal, sums)
    ELSE IF Len(sums) > 1 THEN CreateFinalSummary(sums)
    ELSE Finish(Str(sums[1]), sums)

\* The loop over the chunks at chunk i, up to the first model call of
\* _summarize_chunk; with an empty fallback list every chunk fails at once.
NextChunk(i, sums) ==
    LET models == FallbackModels(config, "chunk")
    IN  IF i > Len(sum_chunks') \/ models = <<>>
        THEN AfterChunkLoop(sums)
        ELSE SumGoto("chunk", i, models, 1, sums, summary)

\* The text a call sends to the model: the transcript, the chunk at
\* chunk_num, or the joined chunk summaries
CallInput(call_type, chunk_num) ==
    CASE call_type = "single_pass" -> <<[start |-> 0, end |-> transcript_len]>>
      [] call_type = "chunk" -> <<sum_chunks[chunk_num]>>
      [] call_type = "final" -> Join(chunk_summaries)

ApiCall(call_type, chunk_num, result) ==
    [call_type |-> call_type, chunk_num |-> chunk_num, attempt |-> attempt,
     model |-> ModelAt(fallback_models, attempt), ok |-> Truthy(result),
     input |-> CallInput(call_type, chunk_num)]

\* A threshold test that sends a transcript of exactly the limit to the chunks
UseSinglePass_Strict(n) == n < MaxSinglePassLength

\* len(transcript) <= max_single_pass_length
UseSinglePass(n) == n <= MaxSinglePassLength

\* _summarize_with_ai up to its first await
SummarizeStart ==
    /\ sum_pc = "call"
    /\ IF ~api_key
       THEN /\ Finish(NoneVal, <<>>)
            /\ UNCHANGED <<sum_chunks, chunk_text_called>>
       ELSE IF UseSinglePass(transcript_len)
       THEN /\ LET models == FallbackModels(config, "final")
               IN  IF models = <<>> THEN Finish(NoneVal, <<>>)
                   ELSE SumGoto("single_pass", 0, models, 1, <<>>, summary)
            /\ UNCHANGED <<sum_chunks, chunk_text_called>>
       ELSE /\ chunk_text_called' = TRUE
            /\ LET size == config.processing.chunk_size
                   ov == config.processing.chunk_overlap
               IN  IF ChunkTextDiverges(transcript_len, size, ov)
                   THEN /\ sum_chunks' = <<>>
                        /\ SumGoto("chunking", 0, <<>>, 0, <<>>, summary)
                   ELSE /\ sum_chunks' = LimitChunks(ChunkSpans(transcript_len, size, ov),
                                                     config.processing.max_chunks)
                        /\ NextChunk(1, <<>>)
    /\ config_at_call' = config
    /\ UNCHANGED <<transcript_len, api_key, api_calls, last_outcome>>
    /\ UNCHANGED <<aliasVars, chunkVars, configVars, moreVars>>

\* _chunk_text in a loop that does not end appends chunks until the memory is
\* used up; the MemoryError is caught by _summarize_with_ai.
ChunkTextMemoryError ==
    /\ sum_pc = "chunking"
    /\ Finish(NoneVal, <<>>)
    /\ UNCHANGED <<transcript_len, api_key, api_calls, sum_chunks, chunk_text_called,
                   last_outcome, config_at_call>>
    /\ UNCHANGED <<aliasVars, chunkVars, configVars, moreVars>>

\* One model call of _single_pass_summarize
SinglePassAttempt ==
    /\ sum_pc = "single_pass"
    /\ \E outcome \in Outcomes :
          LET result == MakeApiCall(outcome, "single_pass", 0, ModelAt(fallback_models, attempt))
          IN  /\ api_calls' = Append(api_calls, ApiCall("single_pass", 0, result))
              /\ last_outcome' = outcome
              /\ IF Truthy(result) THEN Finish(result, <<>>)
                 ELSE IF attempt < Len(fallback_models)
                 THEN SumGoto("single_pass", 0, fallback_models, NextAttempt(attempt), <<>>, summary)
                 ELSE Finish(NoneVal, <<>>)
    /\ UNCHANGED <<transcript_len, api_key, sum_chunks, chunk_text_called, config_at_call>>
    /\ UNCHANGED <<aliasVars, chunkVars, configVars, moreVars>>

\* One model call of _summarize_chunk for the chunk at chunk_index
ChunkAttempt ==
    /\ sum_pc = "chunk"
    /\ \E outcome \in Outcomes :
          LET result == MakeApiCall(outcome, "chunk", chunk_index, ModelAt(fallback_models, attempt))
          IN  /\ api_calls' = Append(api_calls, ApiCall("chunk", chunk_index, result))
              /\ last_outcome' = outcome
              /\ sum_chunks' = sum_chunks
              /\ IF Truthy(result)
                 THEN NextChunk(chunk_index + 1, Append(chunk_summaries, result.text))
                 ELSE IF attempt < Len(fallback_models)
                 THEN SumGoto("chunk", chunk_index, fallback_models, NextAttempt(attempt),
                              chunk_summaries, summary)
                 ELSE NextChunk(chunk_index + 1, chunk_summaries)
    /\ UNCHANGED <<transcript_len, api_key, chunk_text_called, config_at_call>>
    /\ UNCHANGED <<aliasVars, chunkVars, configVars, moreVars>>

\* One model call of _create_final_summary
FinalAttempt ==
    /\ sum_pc = "final"
    /\ \E outcome \in Outcomes :
          LET result == MakeApiCall(outcome, "final", 0, ModelAt(fallback_models, attempt))
          IN  /\ api_calls' = Append(api_calls, ApiCall("final", 0, result))
              /\ last_outcome' = outcome
              /\ IF Truthy(result) THEN Finish(FinalReturn(result), chunk_summaries)
                 ELSE IF attempt < Len(fallback_models)
                 THEN SumGoto("final", 0, fallback_models, NextAttempt(attempt),
                              chunk_summaries, summary)
                 ELSE Finish(FinalReturn(CombinedSummaries(chunk_summaries)), chunk_summaries)
    /\ UNCHANGED <<transcript_len, api_key, sum_chunks, chunk_text_called, config_at_call>>
    /\ UNCHANGED <<aliasVars, chunkVars, configVars, moreVars>>

(***************************************************************************)
(* YouTube plugin: !ytconfig set and !ytconfig reload.                     *)
(***************************************************************************)
\* _set_config for a path "section.key": the path is walked, the key must
\* exist, and the value is stored: config_ref[last_key] = value.
SetConfigValue(cfg, path, value) ==
    LET section == path[1]
        last_key == path[2]
    IN  IF section \notin DOMAIN cfg THEN cfg
        ELSE IF last_key \notin DOMAIN cfg[section] THEN cfg
        ELSE [cfg EXCEPT ![section][last_key] = value]

\* A _set_config that leaves the new value in place when the write fails
SetConfig_NoRollback(path, value, write_ok) ==
    /\ LET section  == path[1]
           last_key == path[2]
           assigned == SetConfigValue(config, path, value)
       IN  IF section \notin DOMAIN config
           THEN set_reply' = "invalid_path" /\ UNCHANGED <<config, config_file>>
           ELSE IF last_key \notin DOMAIN config[section]
           THEN set_reply' = "invalid_setting" /\ UNCHANGED <<config, config_file>>
           ELSE IF write_ok
           THEN /\ config' = assigned
                /\ config_file' = [exists |-> TRUE, content |-> assigned]
                /\ set_reply' = "updated"
           ELSE /\ config' = assigned
                /\ set_reply' = "save_failed"
                /\ UNCHANGED config_file
    /\ UNCHANGED <<aliasVars, chunkVars, sumVars, moreVars>>

\* The whole call: the new value is assigned, then self.config is dumped to
\* config.yaml; if that raises, the old value is assigned back.  A write
\* that fails leaves the file of the model as it was.
SetConfig(path, value, write_ok) ==
    /\ LET section  == path[1]
           last_key == path[2]
           assigned == SetConfigValue(config, path, value)
       IN  IF section \notin DOMAIN config
           THEN set_reply' = "invalid_path" /\ UNCHANGED <<config, config_file>>
           ELSE IF last_key \notin DOMAIN config[section]
           THEN set_reply' = "invalid_setting" /\ UNCHANGED <<config, config_file>>
           ELSE IF write_ok
           THEN /\ config' = assigned
                /\ config_file' = [exists |-> TRUE, content |-> assigned]
                /\ set_reply' = "updated"
           ELSE /\ config' = SetConfigValue(assigned, path, config[section][last_key])
                /\ set_reply' = "save_failed"
                /\ UNCHANGED config_file
    /\ UNCHANGED <<aliasVars, chunkVars, sumVars, moreVars>>

\* _reload_config
ReloadConfig ==
    /\ config' = LoadConfig(config_file)
    /\ UNCHANGED <<config_file, set_reply>>
    /\ UNCHANGED <<aliasVars, chunkVars, sumVars, moreVars>>

(***************************************************************************)
(* Values the variables of a component hold while another component's     *)
(* specification runs.                                                     *)
(***************************************************************************)
EmptyMap == [c \in {} |-> <<>>]

CacheIdle ==
    /\ transcript_cache = EmptyMap
    /\ last_processed_video = EmptyMap
    /\ max_cached_per_room = DefaultMaxCached
    /\ caching_enabled = TRUE
    /\ handlers = EmptyBag
    /\ not_found_replied = FALSE

\* No Home Assistant command is being handled
HaIdle ==
    /\ ha_pc = "idle"
    /\ ha_request = [kind |-> "none"]
    /\ ha_index = 0
    /\ service_calls = <<>>
    /\ ha_reply = ""

\* No audio file is being handled
SttIdle ==
    /\ processing_audio = {}
    /\ transcribing = EmptyBag
    /\ clock = 0

\* No !admin command has been handled
AdminIdle ==
    /\ admins = {}
    /\ admin_reply = ""
    /\ remove_called = ""

MoreIdle == CacheIdle /\ HaIdle /\ SttIdle /\ AdminIdle

ExtractIdle ==
    /\ label = NoneVal
    /\ aliases = <<>>
    /\ extract_pc = "idle"

AliasIdle ==
    /\ entities = <<>>
    /\ search_term = <<>>
    /\ matching_entities = [raised |-> FALSE, value |-> <<>>]
    /\ alias_pc = "idle"
    /\ ExtractIdle

ChunkIdle ==
    /\ text = <<>>
    /\ chunk_size = 0
    /\ overlap = 0
    /\ start = 0
    /\ chunks = <<>>
    /\ chunk_pc = "idle"

ConfigIdle ==
    /\ config = DefaultConfig
    /\ config_file = [exists |-> FALSE, content |-> DefaultConfig]
    /\ set_reply = ""

SumIdle ==
    /\ transcript_len = 0
    /\ api_key = TRUE
    /\ sum_pc = "idle"
    /\ sum_chunks = <<>>
    /\ chunk_index = 0
    /\ fallback_models = <<>>
    /\ attempt = 0
    /\ chunk_summaries = <<>>
    /\ summary = NoneVal
    /\ api_calls = <<>>
    /\ chunk_text_called = FALSE
    /\ last_outcome = "none"
    /\ config_at_call = DefaultConfig

(***************************************************************************)
(* The inputs of _find_entities_by_alias.                                  *)
(***************************************************************************)
Entity(id, kind, name) == [entity_id |-> id, name_kind |-> kind, friendly_name |-> name]

\* light.kitchen_lamp "Kitchen Lamp", light.office_lamp "Office Lamp",
\* light.a "Foo", light.b "Foobar", Switch.Kit (no friendly name),
\* light.x_2 "The (Main) 2 Caf<e_acute>, kit"
EntityPool ==
    { Entity(<<"l", "i", "g", "h", "t", ".", "k", "i", "t", "c", "h", "e", "n", "_", "l", "a", "m", "p">>,
             "str", <<"K", "i", "t", "c", "h", "e", "n", " ", "L", "a", "m", "p">>),
      Entity(<<"l", "i", "g", "h", "t", ".", "o", "f", "f", "i", "c", "e", "_", "l", "a", "m", "p">>,
             "str", <<"O", "f", "f", "i", "c", "e", " ", "L", "a", "m", "p">>),
      Entity(<<"l", "i", "g", "h", "t", ".", "a">>, "str", <<"F", "o", "o">>),
      Entity(<<"l", "i", "g", "h", "t", ".", "b">>, "str", <<"F", "o", "o", "b", "a", "r">>),
      Entity(<<"S", "w", "i", "t", "c", "h", ".", "K", "i", "t">>, "missing", <<>>),
      Entity(<<"l", "i", "g", "h", "t", ".", "x", "_", "2">>, "str",
             <<"T", "h", "e", " ", "(", "M", "a", "i", "n", ")", " ", "2", " ",
               "C", "a", "f", "e_acute", ",", " ", "k", "i", "t">>) }

\* "kitchen", " Kit ", "oob", "LAMP", "kitchen lamp", "a", "main", "zzz", "2",
\* "caf<e_acute>", "ight.", ""
TermPool ==
    { <<"k", "i", "t", "c", "h", "e", "n">>, <<" ", "K", "i", "t", " ">>, <<"o", "o", "b">>,
      <<"L", "A", "M", "P">>, <<"k", "i", "t", "c", "h", "e", "n", " ", "l", "a", "m", "p">>,
      <<"a">>, <<"m", "a", "i", "n">>, <<"z", "z", "z">>, <<"2">>,
      <<"c", "a", "f", "e_acute">>, <<"i", "g", "h", "t", ".">>, <<>> }

SeqsUpTo(S, n) == UNION {[1..k -> S] : k \in 0..n}

(***************************************************************************)
(* _find_entities_by_alias as one call.                                    *)
(***************************************************************************)
FindEntities ==
    /\ alias_pc = "call"
    /\ matching_entities' = FindEntitiesByAlias(entities, search_term)
    /\ alias_pc' = "return"
    /\ UNCHANGED <<entities, search_term, label, aliases, extract_pc>>
    /\ UNCHANGED <<chunkVars, configVars, sumVars, moreVars>>

InitAlias ==
    /\ entities \in SeqsUpTo(EntityPool, MaxEntities)
    /\ search_term \in TermPool
    /\ matching_entities = [raised |-> FALSE, value |-> <<>>]
    /\ alias_pc = "call"
    /\ ExtractIdle
    /\ ChunkIdle /\ ConfigIdle /\ SumIdle /\ MoreIdle

NextAlias == FindEntities

SpecAlias == InitAlias /\ [][NextAlias]_vars

(***************************************************************************)
(* _find_entities_by_alias on entity lists that may hold an entity whose   *)
(* attributes carry 'friendly_name': None.                                 *)
(***************************************************************************)
\* light.n with friendly_name None, light.kitchen_n with friendly_name None
NullNamePool ==
    { Entity(<<"l", "i", "g", "h", "t", ".", "n">>, "null", <<>>),
      Entity(<<"l", "i", "g", "h", "t", ".", "k", "i", "t", "c", "h", "e", "n", "_", "n">>,
             "null", <<>>) }

InitAliasNull ==
    /\ entities \in SeqsUpTo(EntityPool \cup NullNamePool, MaxEntities)
    /\ search_term \in TermPool
    /\ matching_entities = [raised |-> FALSE, value |-> <<>>]
    /\ alias_pc = "call"
    /\ ExtractIdle
    /\ ChunkIdle /\ ConfigIdle /\ SumIdle /\ MoreIdle

SpecAliasNull == InitAliasNull /\ [][NextAlias]_vars

(***************************************************************************)
(* _extract_aliases_from_name on labels of up to MaxLabelWords words.      *)
(***************************************************************************)
MaxLabelWords == 3

\* "Kitchen", "Ceiling", "Lamp", "(Main)!", "42", "Caf<e_acute>", "x1", "...",
\* "" (two separators in a row), "The,", "Desk<tab>Fan", "it's"
LabelWords ==
    { <<"K", "i", "t", "c", "h", "e", "n">>, <<"C", "e", "i", "l", "i", "n", "g">>,
      <<"L", "a", "m", "p">>, <<"(", "M", "a", "i", "n", ")", "!">>, <<"4", "2">>,
      <<"C", "a", "f", "e_acute">>, <<"x", "1">>, <<".", ".", ".">>, <<>>,
      <<"T", "h", "e", ",">>, <<"D", "e", "s", "k", "\t", "F", "a", "n">>,
      <<"i", "t", "'", "s">> }

\* The words with one space between them
RECURSIVE SpaceJoin(_)
SpaceJoin(ws) ==
    IF ws = <<>> THEN <<>>
    ELSE IF Len(ws) = 1 THEN ws[1]
    ELSE ws[1] \o <<" ">> \o SpaceJoin(Tail(ws))

LabelPool == {SpaceJoin(ws) : ws \in SeqsUpTo(LabelWords, MaxLabelWords)}

\* _extract_aliases_from_name as one call; a label of None has no string.
ExtractAliases ==
    /\ extract_pc = "call"
    /\ aliases' = ExtractAliasesFromName(IF label.none THEN "null" ELSE "str", label.text)
    /\ extract_pc' = "return"
    /\ UNCHANGED <<label, entities, search_term, matching_entities, alias_pc>>
    /\ UNCHANGED <<chunkVars, configVars, sumVars, moreVars>>

InitExtract ==
    /\ label \in {NoneVal} \cup {Str(l) : l \in LabelPool}
    /\ aliases = <<>>
    /\ extract_pc = "call"
    /\ entities = <<>>
    /\ search_term = <<>>
    /\ matching_entities = [raised |-> FALSE, value |-> <<>>]
    /\ alias_pc = "idle"
    /\ ChunkIdle /\ ConfigIdle /\ SumIdle /\ MoreIdle

NextExtract == ExtractAliases

SpecExtract == InitExtract /\ [][NextExtract]_vars

(***************************************************************************)
(* _chunk_text on every text, size and overlap within the bounds.          *)
(***************************************************************************)
TextChars == {"a", "b"}

InitChunk ==
    /\ text \in SeqsUpTo(TextChars, MaxTextLen)
    /\ chunk_size \in 0..MaxChunkSize
    /\ overlap \in 0..(MaxChunkSize + 1)
    /\ start = 0
    /\ chunks = <<>>
    /\ chunk_pc = "call"
    /\ AliasIdle /\ ConfigIdle /\ SumIdle /\ MoreIdle

NextChunkText == ChunkTextCall \/ ChunkTextLoop

SpecChunk == InitChunk /\ [][NextChunkText]_vars

\* _chunk_text is synchronous code: once called it runs on, one iteration
\* after the other, with nothing to wait for.
SpecChunkFair == SpecChunk /\ WF_vars(NextChunkText)

(***************************************************************************)
(* The configuration under !ytconfig commands.                             *)
(***************************************************************************)
SettingPaths ==
    {<<"processing", "chunk_size">>, <<"processing", "chunk_overlap">>,
     <<"processing", "max_chunks">>, <<"processing", "bogus">>, <<"bogus", "chunk_size">>}

\* The values a command sets: "<n>".isdigit() gives an int >= 0
SettingValues == {0, 1, 800, 8000, 20000}

\* config.yaml at start: absent, or holding the defaults
FilePool ==
    {[exists |-> FALSE, content |-> DefaultConfig], [exists |-> TRUE, content |-> DefaultConfig]}

InitConfig ==
    /\ config_file \in FilePool
    /\ config = LoadConfig(config_file)
    /\ set_reply = ""
    /\ AliasIdle /\ ChunkIdle /\ SumIdle /\ MoreIdle

NextConfig ==
    \/ \E path \in SettingPaths, value \in SettingValues, write_ok \in BOOLEAN :
          SetConfig(path, value, write_ok)
    \/ ReloadConfig

SpecConfig == InitConfig /\ [][NextConfig]_vars

(***************************************************************************)
(* One summarization under every configuration of the pool and every      *)
(* outcome of every model call.                                            *)
(***************************************************************************)
ProcessingPool ==
    [chunk_size : {8000, 20000}, chunk_overlap : {0, 800, 20000}, max_chunks : {0, 1, 2, 50}]

FallbackPool ==
    {NoFallback, [set |-> TRUE, list |-> <<>>], [set |-> TRUE, list |-> <<"llama", "dolphin">>]}

SumConfigs ==
    {[DefaultConfig EXCEPT !.processing = p,
                           !.ai.fallback_models = [chunk |-> fc, final |-> ff]] :
        p \in ProcessingPool, fc \in FallbackPool, ff \in FallbackPool}

TranscriptLengths == {1, 25000, 25001, 30000}

InitSum ==
    /\ config \in SumConfigs
    /\ config_file = [exists |-> TRUE, content |-> config]
    /\ set_reply = ""
    /\ transcript_len \in TranscriptLengths
    /\ api_key \in BOOLEAN
    /\ sum_pc = "call"
    /\ sum_chunks = <<>>
    /\ chunk_index = 0
    /\ fallback_models = <<>>
    /\ attempt = 0
    /\ chunk_summaries = <<>>
    /\ summary = NoneVal
    /\ api_calls = <<>>
    /\ chunk_text_called = FALSE
    /\ last_outcome = "none"
    /\ config_at_call = DefaultConfig
    /\ AliasIdle /\ ChunkIdle /\ MoreIdle

NextSum ==
    \/ SummarizeStart
    \/ ChunkTextMemoryError
    \/ SinglePassAttempt
    \/ ChunkAttempt
    \/ FinalAttempt

SpecSum == InitSum /\ [][NextSum]_vars

(***************************************************************************)
(* One summarization with !ytconfig commands handled while it waits for a  *)
(* model call: a command runs between two steps of the summarization, on   *)
(* the same self.config.                                                   *)
(***************************************************************************)
\* !ytconfig set ai.chunk_model <name>, !ytconfig set ai.final_model <name>
ModelSettingPaths == {<<"ai", "chunk_model">>, <<"ai", "final_model">>}
ModelSettingValues == {"mistral", "llama"}

InitSumConfig ==
    /\ InitSum
    /\ config.processing.chunk_size = DefaultChunkSize
    /\ config.processing.chunk_overlap \in {DefaultChunkOverlap, 20000}
    /\ config.processing.max_chunks = 2

NextSumConfig ==
    \/ NextSum
    \/ \E path \in ModelSettingPaths, value \in ModelSettingValues, write_ok \in BOOLEAN :
          SetConfig(path, value, write_ok)
    \/ ReloadConfig

SpecSumConfig == InitSumConfig /\ [][NextSumConfig]_vars

(***************************************************************************)
(* Properties of _find_entities_by_alias (SpecAlias).                      *)
(***************************************************************************)
\* search_term.lower().strip()
NormTerm == StripChars(Lower(search_term), SpaceChars)

\* The normalized term is one of the aliases of e
HasExactAlias(e) == InList(NormTerm, AllAliases(e))

\* The normalized term occurs inside the lowercased id or friendly name of e
IsPartialMatch(e) ==
    \/ IsSubstring(NormTerm, Lower(e.entity_id))
    \/ IsSubstring(NormTerm, Lower(GetName(e)))

\* C1: when at least one entity has an alias equal to the normalized term,
\* the result is exactly the entities with such an alias, in input order; an
\* entity that matches only as a substring is not in it.
C1_ExactAliasPriority ==
    (alias_pc = "return" /\ \E i \in DOMAIN entities : HasExactAlias(entities[i])) =>
        /\ ~matching_entities.raised
        /\ matching_entities.value = SelectSeq(entities, HasExactAlias)
        /\ \A j \in DOMAIN matching_entities.value :
              HasExactAlias(matching_entities.value[j])

\* An exact-alias entity and a substring-only entity were given; only the
\* first was returned.
C1_Witness ==
    /\ alias_pc = "return"
    /\ \E i, j \in DOMAIN entities :
          /\ HasExactAlias(entities[i])
          /\ ~HasExactAlias(entities[j])
          /\ IsPartialMatch(entities[j])
          /\ matching_entities.value = <<entities[i]>>

\* C7: when no entity has an alias equal to the normalized term, the result
\* is exactly the entities with the term inside the lowercased id or the
\* lowercased friendly name, in input order (empty when there is none).
C7_SubstringFallback ==
    (alias_pc = "return" /\ \A i \in DOMAIN entities : ~HasExactAlias(entities[i])) =>
        /\ ~matching_entities.raised
        /\ matching_entities.value = SelectSeq(entities, IsPartialMatch)

\* No exact alias; of two entities only the second, matched through its id
\* alone, was returned.
C7_Witness ==
    /\ alias_pc = "return"
    /\ Len(entities) = 2
    /\ \A i \in DOMAIN entities : ~HasExactAlias(entities[i])
    /\ ~IsPartialMatch(entities[1])
    /\ IsSubstring(NormTerm, Lower(entities[2].entity_id))
    /\ ~IsSubstring(NormTerm, Lower(GetName(entities[2])))
    /\ matching_entities.value = <<entities[2]>>

(***************************************************************************)
(* Properties of _chunk_text (SpecChunk).                                  *)
(***************************************************************************)
ValidChunking == chunk_size > 0 /\ 0 <= overlap /\ overlap < chunk_size

\* The first chunk followed by every later chunk without its first ov characters
RECURSIVE StitchRest(_, _)
StitchRest(cs, ov) ==
    IF cs = <<>> THEN <<>>
    ELSE SubSeq(Head(cs), ov + 1, Len(Head(cs))) \o StitchRest(Tail(cs), ov)

Stitch(cs, ov) == IF cs = <<>> THEN <<>> ELSE Head(cs) \o StitchRest(Tail(cs), ov)

\* C4: for size > 0 and 0 <= overlap < size the chunks stitch back to the
\* text, and the last overlap characters of a chunk are the first overlap
\* characters of the next one.
C4_ChunksReconstructText ==
    (chunk_pc = "return" /\ ValidChunking) =>
        /\ Stitch(chunks, overlap) = text
        /\ \A i \in 1..(Len(chunks) - 1) :
              /\ Len(chunks[i + 1]) > overlap
              /\ SubSeq(chunks[i], Len(chunks[i]) - overlap + 1, Len(chunks[i]))
                    = SubSeq(chunks[i + 1], 1, overlap)

\* Three chunks or more with a real overlap and a short last chunk
C4_Witness ==
    /\ chunk_pc = "return"
    /\ ValidChunking
    /\ overlap >= 1
    /\ Len(chunks) >= 3
    /\ Len(chunks[Len(chunks)]) < chunk_size
    /\ \E i, j \in DOMAIN text : text[i] # text[j]

\* C5: with overlap >= size on a text longer than size, _chunk_text fails
\* with an error before it enters its loop.
C5_FailsFastOnBadOverlap ==
    (overlap >= chunk_size /\ Len(text) > chunk_size) => chunk_pc \in {"call", "error"}

(***************************************************************************)
(* Properties of the configuration (SpecConfig).                           *)
(***************************************************************************)
\* C6: the configuration in effect always has chunk_overlap < chunk_size.
C6_OverlapBelowChunkSize ==
    config.processing.chunk_overlap < config.processing.chunk_size

(***************************************************************************)
(* Properties of the summarization (SpecSum), stated on the record of the  *)
(* model calls made, api_calls.                                            *)
(***************************************************************************)
Chunked == transcript_len > MaxSinglePassLength

\* The fallback list of the loop a call belongs to
ListOf(c) == FallbackModels(config, IF c.call_type = "chunk" THEN "chunk" ELSE "final")

\* The calls of one kind, and the calls made for chunk n
CallsOfType(t) == SelectSeq(api_calls, LAMBDA c : c.call_type = t)
CallsOfChunk(n) == SelectSeq(api_calls, LAMBDA c : c.call_type = "chunk" /\ c.chunk_num = n)

\* Every model of the list was tried in these calls and none gave a text
AllModelsFailed(calls, models) ==
    /\ Len(calls) = Len(models)
    /\ \A i \in DOMAIN calls : ~calls[i].ok

\* The chunk calls that gave a summary, in the order they were made
SuccessfulChunkCalls == SelectSeq(api_calls, LAMBDA c : c.call_type = "chunk" /\ c.ok)

\* The texts of calls, with "\n\n" between them
RECURSIVE ConcatTexts(_)
ConcatTexts(calls) ==
    IF calls = <<>> THEN <<>>
    ELSE Content("chunk", Head(calls).chunk_num, Head(calls).model)
         \o (IF Len(calls) > 1 THEN <<Separator>> ELSE <<>>)
         \o ConcatTexts(Tail(calls))

\* C2: with an API key, summarize returns None exactly when (a) the
\* transcript is within the threshold and every model of the list failed, or
\* (b) it is above the threshold and no chunk gave a summary; in every other
\* case it returns a non-empty string.
C2_NoneOnlyWhenNothingSucceeded ==
    (sum_pc = "done" /\ api_key) =>
        LET nothing == IF Chunked
                       THEN SuccessfulChunkCalls = <<>>
                       ELSE AllModelsFailed(api_calls, FallbackModels(config, "final"))
        IN  /\ summary.none <=> nothing
            /\ ~summary.none => summary.text # <<>>

\* Every model failed on one chunk, another chunk was summarized, and a
\* non-empty summary was returned.
C2_Witness ==
    /\ sum_pc = "done"
    /\ api_key
    /\ Chunked
    /\ \E n \in DOMAIN sum_chunks :
          /\ CallsOfChunk(n) # <<>>
          /\ AllModelsFailed(CallsOfChunk(n), FallbackModels(config, "chunk"))
    /\ SuccessfulChunkCalls # <<>>
    /\ Truthy(summary)

\* C3: in the chunked path with two or more chunk summaries, when every
\* model of the final list fails, summarize returns the chunk summaries
\* joined in order.
C3_MergeFailureReturnsConcatenation ==
    (/\ sum_pc = "done"
     /\ Chunked
     /\ Len(SuccessfulChunkCalls) >= 2
     /\ AllModelsFailed(CallsOfType("final"), FallbackModels(config, "final")))
    => summary = Str(ConcatTexts(SuccessfulChunkCalls))

\* Two models of the final list were tried and failed after two chunks or
\* more had been summarized, one of them by its second model.
C3_Witness ==
    /\ sum_pc = "done"
    /\ Chunked
    /\ Len(SuccessfulChunkCalls) >= 2
    /\ Len(CallsOfType("final")) = 2
    /\ AllModelsFailed(CallsOfType("final"), FallbackModels(config, "final"))
    /\ \E i \in DOMAIN SuccessfulChunkCalls : SuccessfulChunkCalls[i].attempt = 2
    /\ summary.text = ConcatTexts(SuccessfulChunkCalls)

SameCall(c, d) == c.call_type = d.call_type /\ c.chunk_num = d.chunk_num

\* C8: in every fallback loop the models are tried in list order: attempt k
\* uses the k-th model of the list and directly follows the failed attempt
\* k - 1 of the same call, nothing is tried for a call after a success, and
\* no attempt of a call is made twice.
C8_FallbackInListOrder ==
    \A j \in DOMAIN api_calls :
        LET c == api_calls[j]
        IN  /\ c.attempt \in 1..Len(ListOf(c))
            /\ c.model = ListOf(c)[c.attempt]
            /\ c.attempt > 1 =>
                  /\ j > 1
                  /\ SameCall(api_calls[j - 1], c)
                  /\ api_calls[j - 1].attempt = c.attempt - 1
                  /\ ~api_calls[j - 1].ok
            /\ (c.ok /\ j < Len(api_calls)) => ~SameCall(api_calls[j + 1], c)
            /\ \A k \in DOMAIN api_calls :
                  (k # j /\ SameCall(api_calls[k], c)) => api_calls[k].attempt # c.attempt

\* A call succeeded with its second model after the first failed, and
\* another call followed.
C8_Witness ==
    \E j \in DOMAIN api_calls :
        /\ j > 1 /\ j < Len(api_calls)
        /\ api_calls[j].attempt = 2
        /\ api_calls[j].ok
        /\ api_calls[j].model = "dolphin"
        /\ ~api_calls[j - 1].ok
        /\ api_calls[j + 1].attempt = 1

\* C9: for a transcript of at most 25,000 characters _chunk_text is never
\* called, every model call is a single-pass call, and the calls form one
\* attempt sequence: attempts 1, 2, ... ending at the first success or at
\* the end of the list.
C9_ShortTranscriptSinglePass ==
    transcript_len <= MaxSinglePassLength =>
        /\ ~chunk_text_called
        /\ \A j \in DOMAIN api_calls :
              /\ api_calls[j].call_type = "single_pass"
              /\ api_calls[j].attempt = j
              /\ j < Len(api_calls) => ~api_calls[j].ok
        /\ (sum_pc = "done" /\ api_key) =>
              \/ (api_calls # <<>> /\ api_calls[Len(api_calls)].ok)
              \/ AllModelsFailed(api_calls, FallbackModels(config, "final"))

\* A transcript of exactly 25,000 characters summarized by the second model
C9_Witness ==
    /\ sum_pc = "done"
    /\ transcript_len = MaxSinglePassLength
    /\ Len(api_calls) = 2
    /\ api_calls[2].ok
    /\ Truthy(summary)

\* C10: in the chunked path, when exactly one chunk summary survives,
\* summarize returns that summary and makes no final-merge call.
C10_SingleSurvivorReturnedDirectly ==
    (sum_pc = "done" /\ Chunked /\ Len(SuccessfulChunkCalls) = 1) =>
        /\ summary = Str(Content("chunk", SuccessfulChunkCalls[1].chunk_num,
                                 SuccessfulChunkCalls[1].model))
        /\ CallsOfType("final") = <<>>

\* Two chunks attempted, the first failed with every model, the second
\* summarized: its summary is the result.
C10_Witness ==
    /\ sum_pc = "done"
    /\ Chunked
    /\ Len(sum_chunks) = 2
    /\ Len(SuccessfulChunkCalls) = 1
    /\ SuccessfulChunkCalls[1].chunk_num = 2
    /\ CallsOfChunk(1) # <<>>
    /\ Truthy(summary)

(***************************************************************************)
(* The limit on the number of chunks (SpecSum).                            *)
(***************************************************************************)
\* The chunks _chunk_text yields for the transcript, before the limit
AllChunks ==
    ChunkSpans(transcript_len, config.processing.chunk_size, config.processing.chunk_overlap)

\* The chunk size and overlap in effect make _chunk_text loop for ever
Diverges ==
    ChunkTextDiverges(transcript_len, config.processing.chunk_size,
                      config.processing.chunk_overlap)

Truncated == Len(AllChunks) > config.processing.max_chunks

\* The chunks that may be sent: the first max_chunks of them
SentLimit == Min(Len(AllChunks), config.processing.max_chunks)

\* C11: in the chunked path the chunks summarized are the first max_chunks
\* chunks of _chunk_text, in order: every chunk call sends the chunk of its
\* index, no call is made for a chunk after the first max_chunks, and when
\* summarize is done every one of the first max_chunks chunks was sent.
\* Dropping the trailing chunks is no failure: the result is None only when
\* no chunk that was sent gave a summary.
C11_AtMostMaxChunksSummarized ==
    (Chunked /\ api_key /\ ~Diverges /\ sum_pc \in {"chunk", "final", "done"}) =>
        /\ sum_chunks = SubSeq(AllChunks, 1, SentLimit)
        /\ \A j \in DOMAIN api_calls :
              api_calls[j].call_type = "chunk" =>
                  /\ api_calls[j].chunk_num \in 1..SentLimit
                  /\ api_calls[j].input = <<AllChunks[api_calls[j].chunk_num]>>
        /\ (sum_pc \in {"final", "done"} /\ FallbackModels(config, "chunk") # <<>>) =>
              \A n \in 1..SentLimit : CallsOfChunk(n) # <<>>
        /\ (sum_pc = "done" /\ Truncated) =>
              (summary.none <=> SuccessfulChunkCalls = <<>>)

\* A transcript of more chunks than max_chunks = 2: the first two chunks were
\* summarized, nothing else was sent as a chunk, and a summary is returned.
C11_Witness ==
    /\ sum_pc = "done"
    /\ Chunked
    /\ ~Diverges
    /\ config.processing.max_chunks = 2
    /\ Len(AllChunks) > 2
    /\ Len(SuccessfulChunkCalls) = 2
    /\ \A j \in DOMAIN api_calls :
          api_calls[j].call_type = "chunk" => api_calls[j].chunk_num <= 2
    /\ Truthy(summary)

(***************************************************************************)
(* The order of the chunk calls and of the merged summaries (SpecSum).     *)
(***************************************************************************)
\* The fallback sequence a call belongs to ended with that call
EndsSequence(c) == c.ok \/ c.attempt = Len(ListOf(c))

\* The summaries of the chunks n, n + 1, ... that gave one, by chunk index,
\* with "\n\n" between them
RECURSIVE SurvivorsFrom(_)
SurvivorsFrom(n) ==
    IF n > Len(sum_chunks) THEN <<>>
    ELSE LET won == SelectSeq(CallsOfChunk(n), LAMBDA c : c.ok)
             rest == SurvivorsFrom(n + 1)
         IN  IF won = <<>> THEN rest
             ELSE Content("chunk", n, won[1].model)
                  \o (IF rest = <<>> THEN <<>> ELSE <<Separator>>)
                  \o rest

\* C12: the chunk calls are made one chunk at a time in ascending chunk
\* index: the first chunk call is the first attempt for chunk 1, a chunk call
\* that follows another is either the next attempt for the same chunk or the
\* first attempt for the next chunk, made only after the fallback sequence
\* of the chunk before ended, and no chunk call follows a merge call.  The
\* text of every merge call is the summaries of the chunks that gave one, in
\* ascending chunk index, the failed chunks left out.
C12_ChunksInAscendingOrder ==
    \A j \in DOMAIN api_calls :
        LET c == api_calls[j]
        IN  /\ (c.call_type = "chunk" /\ j = 1) => (c.chunk_num = 1 /\ c.attempt = 1)
            /\ (c.call_type = "chunk" /\ j > 1) =>
                  LET b == api_calls[j - 1]
                  IN  /\ b.call_type = "chunk"
                      /\ \/ (b.chunk_num = c.chunk_num /\ ~EndsSequence(b)
                                /\ c.attempt = b.attempt + 1)
                         \/ (c.chunk_num = b.chunk_num + 1 /\ EndsSequence(b)
                                /\ c.attempt = 1)
            /\ c.call_type = "final" =>
                  /\ c.input = SurvivorsFrom(1)
                  /\ j > 1
                  /\ api_calls[j - 1].call_type = "chunk" =>
                        /\ api_calls[j - 1].chunk_num = Len(sum_chunks)
                        /\ EndsSequence(api_calls[j - 1])

\* Four chunks: the first summarized by the second model, the second failed
\* with both models, the third and the fourth summarized; the merge call was
\* handed the summaries of chunks 1, 3 and 4.
C12_Witness ==
    /\ sum_pc = "done"
    /\ Len(sum_chunks) = 4
    /\ Len(CallsOfChunk(1)) = 2
    /\ Len(CallsOfChunk(2)) = 2
    /\ AllModelsFailed(CallsOfChunk(2), FallbackModels(config, "chunk"))
    /\ CallsOfType("final") # <<>>
    /\ CallsOfType("final")[1].input =
          Content("chunk", 1, CallsOfChunk(1)[2].model) \o <<Separator>>
              \o Content("chunk", 3, CallsOfChunk(3)[1].model) \o <<Separator>>
              \o Content("chunk", 4, CallsOfChunk(4)[1].model)

(***************************************************************************)
(* The sizes and the number of the chunks of _chunk_text (SpecChunk).      *)
(***************************************************************************)
\* C13: for chunk_size > 0 and 0 <= overlap < chunk_size, every chunk
\* _chunk_text has produced is at most chunk_size long, is non-empty when the
\* text is non-empty, and every chunk except possibly the last of the
\* returned list is exactly chunk_size long.
C13_ChunkLengths ==
    ValidChunking =>
        /\ \A i \in DOMAIN chunks :
              /\ Len(chunks[i]) <= chunk_size
              /\ text # <<>> => chunks[i] # <<>>
              /\ (i < Len(chunks) \/ chunk_pc = "loop") => Len(chunks[i]) = chunk_size
        /\ chunk_pc = "return" => chunks # <<>>

\* A text cut into three chunks with an overlap, the last one shorter
C13_Witness ==
    /\ chunk_pc = "return"
    /\ ValidChunking
    /\ overlap > 0
    /\ Len(chunks) = 3
    /\ Len(chunks[3]) < chunk_size
    /\ Len(chunks[3]) > 0

\* ceil(a / b) for a >= 0 and b > 0
CeilDiv(a, b) == (a + b - 1) \div b

\* The number of chunks of a text: one when it fits, otherwise
\* 1 + ceil((len - chunk_size) / (chunk_size - overlap))
ExpectedChunkCount ==
    IF Len(text) <= chunk_size THEN 1
    ELSE 1 + CeilDiv(Len(text) - chunk_size, chunk_size - overlap)

\* Inside the loop the start is a multiple of chunk_size - overlap, no slice
\* so far has reached the end of the text, and chunks are still to come; on
\* return the list is [text] for a text that fits and has the expected
\* number of chunks, the last slice reaching the end of the text.
ChunkLoopProgress ==
    /\ chunk_pc = "loop" =>
          /\ start = Len(chunks) * (chunk_size - overlap)
          /\ start < Len(text)
          /\ chunks # <<>> => start + overlap < Len(text)
          /\ Len(chunks) < ExpectedChunkCount
    /\ chunk_pc = "return" =>
          /\ Len(chunks) = ExpectedChunkCount
          /\ Len(text) <= chunk_size => chunks = <<text>>
          /\ Len(text) > chunk_size => start + chunk_size >= Len(text)

\* C14: for chunk_size > 0 and 0 <= overlap < chunk_size _chunk_text
\* terminates: every iteration that goes on moves the start forward by
\* chunk_size - overlap, the loop stops at the first slice whose end reaches
\* the end of the text, and the call returns [text] when the text fits and
\* 1 + ceil((len - chunk_size) / (chunk_size - overlap)) chunks otherwise.
C14_ChunkTextTerminates ==
    /\ [](ValidChunking => ChunkLoopProgress)
    /\ [][(ValidChunking /\ chunk_pc = "loop" /\ chunk_pc' = "loop") =>
              (start' = start + (chunk_size - overlap) /\ start' > start)]_vars
    /\ (ValidChunking /\ chunk_pc = "call") ~> (chunk_pc = "return")

\* A text of six characters with chunk_size 3 and overlap 2 returned as
\* 1 + ceil(3 / 1) = 4 chunks
C14_Witness ==
    /\ chunk_pc = "return"
    /\ Len(text) = 6
    /\ chunk_size = 3
    /\ overlap = 2
    /\ Len(chunks) = 4
    /\ start = 3

(***************************************************************************)
(* Properties of _extract_aliases_from_name (SpecExtract).                 *)
(***************************************************************************)
AsciiLetters == {LowerChars[i] : i \in 1..26} \cup {UpperChars[i] : i \in 1..26}

\* A token that becomes an alias: non-empty, not purely numeric, made of
\* ASCII letters only and no stop word
IsAliasWord(w) ==
    /\ w # <<>>
    /\ ~(\A i \in DOMAIN w : w[i] \in DigitChars)
    /\ \A i \in DOMAIN w : w[i] \in AsciiLetters
    /\ w \notin stop_words

\* The whitespace-separated tokens of the lowercased label, each without its
\* leading and trailing punctuation
StrippedTokens(l) ==
    LET tokens == SplitWS(Lower(l))
    IN  [i \in DOMAIN tokens |-> StripChars(tokens[i], PunctChars)]

\* C15: _extract_aliases_from_name(label) returns exactly the
\* whitespace-separated tokens of the lowercased label, each stripped of
\* leading and trailing punctuation, that are non-empty, not purely numeric,
\* made only of ASCII letters and not stop words, in word order; an empty or
\* absent label gives the empty list, and "Kitchen Ceiling Lamp" gives
\* kitchen, ceiling.
C15_AliasesAreFilteredTokens ==
    extract_pc = "return" =>
        /\ aliases = (IF label.none \/ label.text = <<>> THEN <<>>
                      ELSE SelectSeq(StrippedTokens(label.text), IsAliasWord))
        /\ label = Str(<<"K", "i", "t", "c", "h", "e", "n", " ", "C", "e", "i", "l", "i", "n", "g",
                         " ", "L", "a", "m", "p">>) =>
              aliases = <<(<<"k", "i", "t", "c", "h", "e", "n">>),
                          (<<"c", "e", "i", "l", "i", "n", "g">>)>>

\* "(Main)! Lamp Kitchen": the punctuation is stripped from the first word,
\* the stop word is dropped, and two aliases are returned in word order.
C15_Witness ==
    /\ extract_pc = "return"
    /\ label = Str(<<"(", "M", "a", "i", "n", ")", "!", " ", "L", "a", "m", "p", " ",
                     "K", "i", "t", "c", "h", "e", "n">>)
    /\ aliases = <<(<<"m", "a", "i", "n">>), (<<"k", "i", "t", "c", "h", "e", "n">>)>>

(***************************************************************************)
(* More properties of _find_entities_by_alias (SpecAlias).                 *)
(***************************************************************************)
\* The entities light.a "Foo" and light.b "Foobar"
LightFoo == Entity(<<"l", "i", "g", "h", "t", ".", "a">>, "str", <<"F", "o", "o">>)
LightFoobar == Entity(<<"l", "i", "g", "h", "t", ".", "b">>, "str", <<"F", "o", "o", "b", "a", "r">>)

\* C16 as stated: for the entities light.a "Foo" and light.b "Foobar" and
\* the term "oob", the exact-alias pass finds nothing and the substring pass
\* returns both entities.
C16_OobReturnsBoth ==
    (alias_pc = "return" /\ entities = <<LightFoo, LightFoobar>>
        /\ search_term = <<"o", "o", "b">>) =>
        /\ ExactPass(entities, <<"o", "o", "b">>) = <<>>
        /\ matching_entities = [raised |-> FALSE, value |-> <<LightFoo, LightFoobar>>]

\* C16, amended: for the same entities and term the aliases are a, foo and
\* b, foobar, so the exact-alias pass finds nothing; "oob" occurs in "foobar"
\* and not in "foo", "light.a" or "light.b", so the substring pass returns
\* light.b alone.
C16_OobReturnsFoobarOnly ==
    (alias_pc = "return" /\ entities = <<LightFoo, LightFoobar>>
        /\ search_term = <<"o", "o", "b">>) =>
        /\ AllAliases(LightFoo) = <<(<<"a">>), (<<"f", "o", "o">>)>>
        /\ AllAliases(LightFoobar) = <<(<<"b">>), (<<"f", "o", "o", "b", "a", "r">>)>>
        /\ ExactPass(entities, <<"o", "o", "b">>) = <<>>
        /\ matching_entities = [raised |-> FALSE, value |-> <<LightFoobar>>]

\* The lookup of "oob" among light.a "Foo" and light.b "Foobar" has returned
C16_Witness ==
    /\ alias_pc = "return"
    /\ entities = <<LightFoo, LightFoobar>>
    /\ search_term = <<"o", "o", "b">>
    /\ matching_entities.value = <<LightFoobar>>

\* r is s with some elements left out: the elements of r are elements of s
\* at strictly increasing positions
IsSubsequence(r, s) ==
    \E f \in [DOMAIN r -> DOMAIN s] :
        /\ \A k \in DOMAIN r : r[k] = s[f[k]]
        /\ \A k, l \in DOMAIN r : k < l => f[k] < f[l]

\* C17: the call of _find_entities_by_alias leaves the entity list, its
\* entities and the term as they were, and its result is a subsequence of the
\* list: every returned entity is an element of the input, no position of the
\* input is returned twice, and the input order is kept.
C17_ResultIsSubsequence ==
    [][alias_pc' = "return" =>
          /\ entities' = entities
          /\ search_term' = search_term
          /\ IsSubsequence(matching_entities'.value, entities')]_vars

\* Of two different entities both were returned, in the order given
C17_Witness ==
    /\ alias_pc = "return"
    /\ Len(entities) = 2
    /\ entities[1] # entities[2]
    /\ matching_entities.value = entities

\* The entity with an absent friendly name read as the empty string
NameAsEmpty(e) ==
    IF e.name_kind = "str" THEN e ELSE Entity(e.entity_id, "str", <<>>)

\* C18: _find_entities_by_alias never raises, and an entity whose friendly
\* name is missing or None is treated as having the empty string there, in
\* both passes: the result is the one for the list with every absent name
\* replaced by ''.
C18_NeverRaises ==
    alias_pc = "return" =>
        /\ ~matching_entities.raised
        /\ LET asEmpty == [i \in DOMAIN entities |-> NameAsEmpty(entities[i])]
               expected == FindEntitiesByAlias(asEmpty, search_term).value
           IN  /\ Len(matching_entities.value) = Len(expected)
               /\ \A k \in DOMAIN expected :
                     NameAsEmpty(matching_entities.value[k]) = expected[k]

(***************************************************************************)
(* The recovery from failed model calls (SpecSum).                         *)
(***************************************************************************)
\* The ways a single model call fails
Failures == {"empty", "http_error", "exception", "timeout"}

\* C19: a model call that fails - another status than 200, an exception of
\* the transport, a timeout, an empty text - is recorded as a failed call and
\* handled inside the fallback loop: while the list has a further model the
\* same loop goes on with the next attempt and nothing else changes; only
\* when the list is exhausted does the loop end, either the summarization as
\* a whole or the chunk, after which the next chunk or the merge follows.
\* summarize raises in no case: after the call it is in one of its loops or
\* has returned.
C19_FailuresMoveToNextModel ==
    [][(api_calls' # api_calls /\ last_outcome' \in Failures) =>
          /\ ~api_calls'[Len(api_calls')].ok
          /\ sum_pc' \in {"single_pass", "chunk", "final", "done"}
          /\ IF attempt < Len(fallback_models)
             THEN /\ sum_pc' = sum_pc
                  /\ chunk_index' = chunk_index
                  /\ fallback_models' = fallback_models
                  /\ attempt' = attempt + 1
                  /\ chunk_summaries' = chunk_summaries
                  /\ summary' = summary
             ELSE /\ attempt = Len(fallback_models)
                  /\ sum_pc \in {"single_pass", "final"} => sum_pc' = "done"
                  /\ sum_pc = "chunk" =>
                        \/ sum_pc' = "chunk" /\ chunk_index' = chunk_index + 1 /\ attempt' = 1
                        \/ sum_pc' \in {"final", "done"} /\ chunk_index = Len(sum_chunks)]_vars

\* After a timeout of the first model the chunk is with the second model
C19_Witness ==
    /\ sum_pc = "chunk"
    /\ last_outcome = "timeout"
    /\ attempt = 2
    /\ api_calls # <<>>
    /\ ~api_calls[Len(api_calls)].ok
    /\ api_calls[Len(api_calls)].attempt = 1

(***************************************************************************)
(* The summarization and the configuration commands (SpecSumConfig).       *)
(***************************************************************************)
\* The fallback list of the loop a call belongs to, in the configuration in
\* effect when the invocation started
ListAtStart(c) ==
    FallbackModels(config_at_call, IF c.call_type = "chunk" THEN "chunk" ELSE "final")

\* C20: every model call of a summarize invocation uses the fallback list in
\* effect when the invocation started, whatever !ytconfig set and
\* !ytconfig reload commands ran in between: the model of a call is the entry
\* of that list at the call's attempt.
C20_ConfigAsAtStart ==
    \A j \in DOMAIN api_calls :
        /\ api_calls[j].attempt \in DOMAIN ListAtStart(api_calls[j])
        /\ api_calls[j].model = ListAtStart(api_calls[j])[api_calls[j].attempt]

(***************************************************************************)
(* The alias set of the exact-alias pass (SpecAlias).                      *)
(***************************************************************************)
\* The part of an entity id after its last '.'
TrailingSegment(id) ==
    LET segments == SplitOn(id, ".") IN segments[Len(segments)]

\* The union of the underscore-separated tokens of the trailing segment of
\* the lowercased id and of the aliases extracted from the label
AliasUnion(e) ==
    Range(SplitOn(TrailingSegment(Lower(e.entity_id)), "_"))
        \cup Range(ExtractAliasesFromName(GetNameKind(e), GetName(e)))

InAliasUnion(e) == NormTerm \in AliasUnion(e)

\* C21: in the exact-alias pass the aliases of an entity are the
\* underscore-separated tokens of the trailing segment of its id together
\* with the aliases extracted from its label, and an entity matches exactly
\* iff the normalized term is one of them: when some entity has the term in
\* that union the result is exactly the entities that have it, and when none
\* has, no entity of the result has it.
C21_AliasSetIsUnion ==
    alias_pc = "return" =>
        /\ \A i \in DOMAIN entities : Range(AllAliases(entities[i])) = AliasUnion(entities[i])
        /\ (\E i \in DOMAIN entities : InAliasUnion(entities[i])) =>
              matching_entities.value = SelectSeq(entities, InAliasUnion)
        /\ (\A i \in DOMAIN entities : ~InAliasUnion(entities[i])) =>
              matching_entities.value = SelectSeq(entities, IsPartialMatch)

\* Two entities found by one term: the first through a token of its id (it
\* has no label), the second through its label alone.
C21_Witness ==
    /\ alias_pc = "return"
    /\ Len(matching_entities.value) = 2
    /\ NormTerm \in Range(SplitOn(TrailingSegment(Lower(matching_entities.value[1].entity_id)), "_"))
    /\ ExtractAliasesFromName(GetNameKind(matching_entities.value[1]),
                              GetName(matching_entities.value[1])) = <<>>
    /\ NormTerm \notin Range(SplitOn(TrailingSegment(Lower(matching_entities.value[2].entity_id)), "_"))
    /\ InAliasUnion(matching_entities.value[2])

(***************************************************************************)
(* YouTube plugin: the transcript cache under !youtube <url>, questions    *)
(* about the last video, !summary and cleanup.  A cache of a chat is the   *)
(* list of its entries in insertion order (an OrderedDict); of the value   *)
(* of an entry, (title, transcript, datetime.now()), the model keeps       *)
(* whether it is the one stored last in the chat or not.  handlers is the   *)
(* bag of the commands that wait at an await, each [kind, chat_id, url,    *)
(* pc].                                                                    *)
(***************************************************************************)
MaxInFlight == 2
MaxCachedBound == 2

Chats == {"room1", "room2"}
Urls == {"urlA", "urlB"}

\* The !youtube <url> commands given: any of the URLs in room1, one URL in
\* room2
UrlCommands == {<<"room1", url>> : url \in Urls} \cup {<<"room2", "urlA">>}

\* Every value stored in the cache so far is older than the one stored next
Older(entries) == [i \in DOMAIN entries |-> [url |-> entries[i].url, value |-> "older"]]

\* url in self.transcript_cache[chat_id]
HasUrl(entries, url) == \E i \in DOMAIN entries : entries[i].url = url

\* An assignment that moves a cached URL to the newest position
PutEntry_MoveToEnd(entries, url, value) ==
    Append(SelectSeq(Older(entries), LAMBDA e : e.url # url), [url |-> url, value |-> value])

\* self.transcript_cache[chat_id][url] = value: a key already there keeps its
\* position, a new key goes to the end
PutEntry(entries, url, value) ==
    IF HasUrl(entries, url)
    THEN [i \in DOMAIN entries |->
             IF entries[i].url = url THEN [url |-> url, value |-> value]
             ELSE Older(entries)[i]]
    ELSE Append(Older(entries), [url |-> url, value |-> value])

\* A trim that removes the newest entries
TrimCache_Newest(entries, max_cached) ==
    IF Len(entries) > max_cached THEN SubSeq(entries, 1, max_cached) ELSE entries

\* while len(cache) > max_cached: cache.popitem(last=False)
TrimCache(entries, max_cached) ==
    IF Len(entries) > max_cached
    THEN SubSeq(entries, Len(entries) - max_cached + 1, Len(entries))
    ELSE entries

\* m[k] = v for a dict m
MapPut(m, k, v) == [c \in DOMAIN m \cup {k} |-> IF c = k THEN v ELSE m[c]]

\* The cache of a chat, empty when the chat has none yet
CacheOf(chat_id) ==
    IF chat_id \in DOMAIN transcript_cache THEN transcript_cache[chat_id] ELSE <<>>

\* _cache_transcript(url, title, transcript, chat_id)
CacheTranscript(url, chat_id) ==
    IF ~caching_enabled
    THEN UNCHANGED <<transcript_cache, last_processed_video>>
    ELSE /\ transcript_cache' =
               MapPut(transcript_cache, chat_id,
                      TrimCache(PutEntry(CacheOf(chat_id), url, "latest"), max_cached_per_room))
         /\ last_processed_video' = MapPut(last_processed_video, chat_id, url)

Handler(kind, chat_id, url, pc) == [kind |-> kind, chat_id |-> chat_id, url |-> url, pc |-> pc]

\* The handlers with handler h gone on to g, and with h returned
GoneOn(h, g) == (handlers (-) SetToBag({h})) (+) SetToBag({g})
Returned(h) == handlers (-) SetToBag({h})

Waiting(pc) == {h \in BagToSet(handlers) : h.pc = pc}

\* !youtube <url>, up to the await of _extract_youtube_subtitles; without the
\* API key or with AI summarization disabled the command is refused.
YoutubeUrlStart(chat_id, url, accepted) ==
    /\ BagCardinality(handlers) < MaxInFlight
    /\ handlers' = IF accepted
                   THEN handlers (+) SetToBag({Handler("url", chat_id, url, "extract")})
                   ELSE handlers
    /\ UNCHANGED <<transcript_cache, last_processed_video, max_cached_per_room, caching_enabled,
                   not_found_replied>>
    /\ UNCHANGED notCacheVars

\* _extract_youtube_subtitles returns: subtitles, or nothing (an exception
\* ends the command in the same way, with another reply)
ExtractReturn(h, subtitles) ==
    /\ h \in Waiting("extract")
    /\ handlers' = IF subtitles THEN GoneOn(h, [h EXCEPT !.pc = "title"]) ELSE Returned(h)
    /\ UNCHANGED <<transcript_cache, last_processed_video, max_cached_per_room, caching_enabled,
                   not_found_replied>>
    /\ UNCHANGED notCacheVars

\* _get_youtube_title returns; the transcript is cached, and the handler goes
\* on to the await of its first model call
TitleReturn(h) ==
    /\ h \in Waiting("title")
    /\ CacheTranscript(h.url, h.chat_id)
    /\ handlers' = GoneOn(h, [h EXCEPT !.pc = "ai"])
    /\ UNCHANGED <<max_cached_per_room, caching_enabled, not_found_replied>>
    /\ UNCHANGED notCacheVars

\* The summary or the answer comes back, or the generation fails: either way
\* the command returns with a reply
AiReturn(h) ==
    /\ h \in Waiting("ai")
    /\ handlers' = Returned(h)
    /\ UNCHANGED <<transcript_cache, last_processed_video, max_cached_per_room, caching_enabled,
                   not_found_replied>>
    /\ UNCHANGED notCacheVars

\* The last video of the chat is not in its cache: "Transcript not found for
\* the last video"
TranscriptNotFound(chat_id) ==
    /\ chat_id \in DOMAIN last_processed_video
    /\ ~HasUrl(CacheOf(chat_id), last_processed_video[chat_id])

\* _handle_summary_command / _handle_video_question up to their await: the
\* last video of the chat is looked up in the cache.  Without a question
\* !summary replies at once.
LastVideoStart(chat_id, kind) ==
    /\ BagCardinality(handlers) < MaxInFlight
    /\ IF chat_id \notin DOMAIN last_processed_video
       THEN UNCHANGED <<handlers, not_found_replied>>
       ELSE IF TranscriptNotFound(chat_id)
       THEN /\ not_found_replied' = TRUE
            /\ UNCHANGED handlers
       ELSE /\ handlers' =
                  IF kind = "summary" THEN handlers
                  ELSE handlers (+) SetToBag({Handler(kind, chat_id,
                                                      last_processed_video[chat_id], "answer")})
            /\ UNCHANGED not_found_replied
    /\ UNCHANGED <<transcript_cache, last_processed_video, max_cached_per_room, caching_enabled>>
    /\ UNCHANGED notCacheVars

\* _answer_question_about_video returns
AnswerReturn(h) ==
    /\ h \in Waiting("answer")
    /\ handlers' = Returned(h)
    /\ UNCHANGED <<transcript_cache, last_processed_video, max_cached_per_room, caching_enabled,
                   not_found_replied>>
    /\ UNCHANGED notCacheVars

\* cleanup
Cleanup ==
    /\ transcript_cache' = EmptyMap
    /\ last_processed_video' = EmptyMap
    /\ UNCHANGED <<max_cached_per_room, caching_enabled, handlers, not_found_replied>>
    /\ UNCHANGED notCacheVars

\* !ytconfig set cache.max_cached_per_room <n>
SetMaxCached(n) ==
    /\ max_cached_per_room' = n
    /\ UNCHANGED <<transcript_cache, last_processed_video, caching_enabled, handlers, not_found_replied>>
    /\ UNCHANGED notCacheVars

InitCache ==
    /\ transcript_cache = EmptyMap
    /\ last_processed_video = EmptyMap
    /\ max_cached_per_room \in 0..MaxCachedBound
    /\ caching_enabled \in BOOLEAN
    /\ handlers = EmptyBag
    /\ not_found_replied = FALSE
    /\ AliasIdle /\ ChunkIdle /\ ConfigIdle /\ SumIdle /\ HaIdle /\ SttIdle /\ AdminIdle

NextCache ==
    \/ \E command \in UrlCommands, accepted \in BOOLEAN :
          YoutubeUrlStart(command[1], command[2], accepted)
    \/ \E h \in BagToSet(handlers), subtitles \in BOOLEAN : ExtractReturn(h, subtitles)
    \/ \E h \in BagToSet(handlers) : TitleReturn(h)
    \/ \E h \in BagToSet(handlers) : AiReturn(h)
    \/ \E chat_id \in Chats, kind \in {"summary", "question"} : LastVideoStart(chat_id, kind)
    \/ \E h \in BagToSet(handlers) : AnswerReturn(h)
    \/ Cleanup

\* The commands of the chats with the configuration as it is at the start
SpecCache == InitCache /\ [][NextCache]_vars

NextCacheConfig ==
    \/ NextCache
    \/ \E n \in 0..MaxCachedBound : SetMaxCached(n)

\* The same with !ytconfig set cache.max_cached_per_room in between
SpecCacheConfig == InitCache /\ [][NextCacheConfig]_vars

(***************************************************************************)
(* C22.  The cache of a chat after _cache_transcript                       *)
(***************************************************************************)
UrlsOf(entries) == [i \in DOMAIN entries |-> entries[i].url]

\* The position of a cached URL, counted from the newest entry
FromNewest(entries, url) ==
    Len(entries) - (CHOOSE i \in DOMAIN entries : entries[i].url = url)

\* seq is what is left of whole after removing entries from its front
IsSuffix(seq, whole) ==
    /\ Len(seq) <= Len(whole)
    /\ seq = SubSeq(whole, Len(whole) - Len(seq) + 1, Len(whole))

\* The URLs of a cache in insertion order, with url inserted if it is new
UrlsWith(entries, url) ==
    IF HasUrl(entries, url) THEN UrlsOf(entries) ELSE Append(UrlsOf(entries), url)

CachedBy(h) ==
    LET before == CacheOf(h.chat_id)
        after  == CacheOf(h.chat_id)'
    IN  /\ Len(after) <= max_cached_per_room
        /\ Len(after) = max_cached_per_room \/ Len(after) = Len(UrlsWith(before, h.url))
        /\ IsSuffix(UrlsOf(after), UrlsWith(before, h.url))
        /\ (HasUrl(before, h.url) /\ HasUrl(after, h.url)) =>
              /\ FromNewest(after, h.url) = FromNewest(before, h.url)
              /\ \E i \in DOMAIN after : after[i] = [url |-> h.url, value |-> "latest"]
              /\ \A i \in DOMAIN after : after[i].url # h.url => after[i].value = "older"

\* C22: with caching enabled, after every _cache_transcript the cache of the
\* chat holds at most max_cached_per_room entries; the entries removed are the
\* ones inserted earliest, and no more of them than needed; caching a URL
\* that is already cached replaces its value and leaves it at its position.
C22_CacheBoundedOldestEvicted ==
    [][\A h \in BagToSet(handlers) :
          (TitleReturn(h) /\ caching_enabled) => CachedBy(h)]_vars

\* A full cache of two entries whose older entry holds the value stored last:
\* its URL was cached again and stayed where it was
C22_Witness ==
    /\ caching_enabled
    /\ max_cached_per_room = 2
    /\ "room1" \in DOMAIN transcript_cache
    /\ Len(transcript_cache["room1"]) = 2
    /\ transcript_cache["room1"][1].value = "latest"
    /\ last_processed_video["room1"] = transcript_cache["room1"][1].url

(***************************************************************************)
(* C23.  The last video of a chat is in the cache of the chat              *)
(***************************************************************************)
LastVideoCached(chat_id) == HasUrl(CacheOf(chat_id), last_processed_video[chat_id])

\* C23: with caching enabled and max_cached_per_room >= 1, whatever the
\* interleaving of !youtube <url>, questions, !summary and cleanup, every chat
\* with a last processed video has that URL in its transcript cache, and
\* "Transcript not found for the last video" has never been replied.
C23_LastVideoIsCached ==
    (caching_enabled /\ max_cached_per_room >= 1) =>
        /\ \A chat_id \in DOMAIN last_processed_video : LastVideoCached(chat_id)
        /\ ~not_found_replied

\* A question about urlA is still being answered while urlB has been cached
\* in the same chat and has evicted urlA
C23_Witness ==
    /\ caching_enabled
    /\ max_cached_per_room = 1
    /\ Handler("question", "room1", "urlA", "answer") \in BagToSet(handlers)
    /\ "room1" \in DOMAIN last_processed_video
    /\ last_processed_video["room1"] = "urlB"
    /\ UrlsOf(CacheOf("room1")) = <<"urlB">>

(***************************************************************************)
(* C24.  What !youtube <url> does to the cache and the pointer             *)
(***************************************************************************)
\* The cache and the pointer of every chat but chat_id stay as they are
OtherChatsUnchanged(chat_id) ==
    \A other \in Chats \ {chat_id} :
        /\ CacheOf(other)' = CacheOf(other)
        /\ (other \in DOMAIN last_processed_video') = (other \in DOMAIN last_processed_video)
        /\ other \in DOMAIN last_processed_video =>
              last_processed_video'[other] = last_processed_video[other]

\* After the step the URL of the handler is cached in its chat and is the
\* last processed video of the chat
CachedAndLast(h) ==
    /\ HasUrl(CacheOf(h.chat_id)', h.url)
    /\ h.chat_id \in DOMAIN last_processed_video'
    /\ last_processed_video'[h.chat_id] = h.url

\* C24: for !youtube <url> with caching enabled (and a limit of at least one
\* entry), when extraction returned a transcript the URL is cached and is the
\* last processed video of the chat before any model call is awaited, and no
\* other chat's cache or pointer changes; when extraction yields nothing, and
\* when the model call returns or fails, cache and pointer of every chat are
\* unchanged.
C24_CachedIffExtracted ==
    [][\A h \in BagToSet(handlers) :
          (caching_enabled /\ max_cached_per_room >= 1) =>
              /\ TitleReturn(h) => (CachedAndLast(h) /\ OtherChatsUnchanged(h.chat_id))
              /\ (ExtractReturn(h, TRUE) \/ ExtractReturn(h, FALSE) \/ AiReturn(h)) =>
                    UNCHANGED <<transcript_cache, last_processed_video>>]_vars

(***************************************************************************)
(* Home Assistant plugin: the commands that call services.  A command is   *)
(* handled from the list of states it fetched; the service calls made for  *)
(* it are kept in service_calls, each with whether it raised.              *)
(***************************************************************************)
\* The state object of entity k of a domain: <domain>.desk_1 "Desk Lamp",
\* <domain>.shelf_1 "Shelf Lamp", <domain>.tv "TV"
HaEntity(domain, k) ==
    LET ids     == <<<<"d", "e", "s", "k", "_", "1">>, <<"s", "h", "e", "l", "f", "_", "1">>, <<"t", "v">>>>
        names   == <<<<"D", "e", "s", "k", " ", "L", "a", "m", "p">>, <<"S", "h", "e", "l", "f", " ", "L", "a", "m", "p">>, <<"T", "V">>>>
        prefix  == CASE domain = "light" -> <<"l", "i", "g", "h", "t">>
                   [] domain = "switch" -> <<"s", "w", "i", "t", "c", "h">>
                   [] domain = "todo" -> <<"t", "o", "d", "o">>
                   [] domain = "button" -> <<"b", "u", "t", "t", "o", "n">>
    IN  Entity(prefix \o <<".">> \o ids[k], "str", names[k])

InjectiveSeqs(S) ==
    {s \in SeqsUpTo(S, Cardinality(S)) : \A i, j \in DOMAIN s : i # j => s[i] # s[j]}

\* The states of one domain as fetched by _async_get_states, in any order
HaStates(domain) ==
    {[i \in DOMAIN order |-> HaEntity(domain, order[i])] : order \in InjectiveSeqs(1..3)}

\* The todo lists as fetched: some of the lists, in the order of the pool
TodoStates ==
    {states \in HaStates("todo") :
        \A i, j \in DOMAIN states :
            i < j => \E a, b \in 1..3 : /\ a < b
                                       /\ states[i] = HaEntity("todo", a)
                                       /\ states[j] = HaEntity("todo", b)}

\* "lamp", " Desk ", "zzz", "tv"
HaNamePool == {<<"l", "a", "m", "p">>, <<" ", "D", "e", "s", "k", " ">>, <<"z", "z", "z">>, <<"t", "v">>}

\* "", "on", "OFF", "toggle"
ActionPool == {<<>>, <<"o", "n">>, <<"O", "F", "F">>, <<"t", "o", "g", "g", "l", "e">>}

\* trigger_service(domain, service, entity_id=..., **kwargs) and how it ended
Call(domain, service, entity_id, item, status, raised) ==
    [domain |-> domain, service |-> service, entity_id |-> entity_id,
     item |-> item, status |-> status, raised |-> raised]

\* return <reply>
Reply(reply) ==
    /\ ha_pc' = "done"
    /\ ha_reply' = reply
    /\ ha_index' = 0

\* !ha light|switch <name> [<action>], up to the loop over the matches
LightSwitchCommand(domain, states, name, action) ==
    LET act   == Lower(action)
        found == FindEntitiesByAlias(states, Lower(name))
        valid == act \in {<<"o", "n">>, <<"o", "f", "f">>} /\ ~found.raised
    IN  /\ ha_pc = "idle"
        /\ ha_request' = [kind |-> domain, states |-> states, name |-> name, action |-> action,
                          matching |-> IF valid THEN found.value ELSE <<>>]
        /\ IF act = <<>> THEN Reply("specify_action")
           ELSE IF act \notin {<<"o", "n">>, <<"o", "f", "f">>} THEN Reply("bad_action")
           ELSE IF found.raised THEN Reply("error")
           ELSE IF found.value = <<>> THEN Reply("not_found")
           ELSE /\ ha_pc' = "calling"
                /\ ha_index' = 1
                /\ ha_reply' = ""
        /\ UNCHANGED service_calls
        /\ UNCHANGED notHaVars

\* service = "turn_on" if action == "on" else "turn_off"
ServiceOf(action) == IF Lower(action) = <<"o", "n">> THEN "turn_on" ELSE "turn_off"

\* A loop that ends at the first service call that raises
ServiceCallReturn_StopAtError(raises) ==
    /\ ha_pc = "calling"
    /\ service_calls' = Append(service_calls,
                               Call(ha_request.kind, ServiceOf(ha_request.action),
                                    ha_request.matching[ha_index].entity_id, <<>>, "", raises))
    /\ ha_index' = ha_index + 1
    /\ IF ha_index < Len(ha_request.matching) /\ ~raises
       THEN UNCHANGED <<ha_pc, ha_reply>>
       ELSE /\ ha_pc' = "done"
            /\ ha_reply' = IF raises THEN "failed" ELSE "turned"
    /\ UNCHANGED ha_request
    /\ UNCHANGED notHaVars

\* One iteration of the loop over the matches: the service call for the
\* entity, which returns or raises; after the last one the reply
ServiceCallReturn(raises) ==
    /\ ha_pc = "calling"
    /\ service_calls' = Append(service_calls,
                               Call(ha_request.kind, ServiceOf(ha_request.action),
                                    ha_request.matching[ha_index].entity_id, <<>>, "", raises))
    /\ ha_index' = ha_index + 1
    /\ IF ha_index < Len(ha_request.matching)
       THEN UNCHANGED <<ha_pc, ha_reply>>
       ELSE /\ ha_pc' = "done"
            /\ ha_reply' = IF \E k \in DOMAIN service_calls' : ~service_calls'[k].raised
                           THEN "turned" ELSE "failed"
    /\ UNCHANGED ha_request
    /\ UNCHANGED notHaVars

\* The handler has returned its reply
HaReturn ==
    /\ ha_pc = "done"
    /\ ha_pc' = "idle"
    /\ ha_request' = [kind |-> "none"]
    /\ ha_index' = 0
    /\ service_calls' = <<>>
    /\ ha_reply' = ""
    /\ UNCHANGED notHaVars

\* Item k of a todo list as todo.get_items returns it: "Milky", "Buy Milk",
\* and "the end" without a uid
TodoItem(k, status) ==
    LET summaries == <<<<"M", "i", "l", "k", "y">>, <<"B", "u", "y", " ", "M", "i", "l", "k">>, <<"t", "h", "e", " ", "e", "n", "d">>>>
        uids      == <<<<"u", "1">>, <<"u", "2">>, <<>>>>
    IN  [summary |-> summaries[k], status |-> status, uid |-> uids[k]]

\* Items in a todo list of the model
MaxItems == 2

\* The lists of items: every order of up to MaxItems of the summaries, each
\* item pending or completed
ItemLists ==
    UNION { {[i \in DOMAIN order |-> TodoItem(order[i], status[i])] :
                status \in [DOMAIN order -> {"needs_action", "completed"}]} :
            order \in {o \in InjectiveSeqs(1..3) : Len(o) <= MaxItems} }

\* "milk", "BUY MILK", "the", "zzz", ""
ItemTextPool == {<<"m", "i", "l", "k">>, <<"B", "U", "Y", " ", "M", "I", "L", "K">>, <<"t", "h", "e">>, <<"z", "z", "z">>, <<>>}

OperationPool == {"", "add", "done", "undo", "sort"}
DoneOperations == {"done", "complete", "finish"}
UndoOperations == {"undo", "pending", "reopen"}

\* The first pass over the items: the text is one of the aliases of the
\* summary, or is the whole summary
AliasMatch(item, item_text) ==
    \/ InList(Lower(item_text), [i \in DOMAIN ExtractAliasesFromName("str", item.summary) |->
                                    Lower(ExtractAliasesFromName("str", item.summary)[i])])
    \/ Lower(item.summary) = Lower(item_text)

\* The second pass: the text is inside the summary
PartialMatch(item, item_text) == IsSubstring(Lower(item_text), Lower(item.summary))

\* for item in items: ... break -- the index of the first item from i on
\* that matches, 0 for none
RECURSIVE ScanAlias(_, _, _)
ScanAlias(items, item_text, i) ==
    IF i > Len(items) THEN 0
    ELSE IF AliasMatch(items[i], item_text) THEN i
    ELSE ScanAlias(items, item_text, i + 1)

RECURSIVE ScanPartial(_, _, _)
ScanPartial(items, item_text, i) ==
    IF i > Len(items) THEN 0
    ELSE IF PartialMatch(items[i], item_text) THEN i
    ELSE ScanPartial(items, item_text, i + 1)

\* A selection that takes the first item matching in either way
SelectItem_OnePass(items, item_text) ==
    LET first   == ScanAlias(items, item_text, 1)
        partial == ScanPartial(items, item_text, 1)
    IN  IF first # 0 /\ (partial = 0 \/ first <= partial) THEN first ELSE partial

\* matching_item of done and undo, as an index into items (0 for None)
SelectItem(items, item_text) ==
    LET first == ScanAlias(items, item_text, 1)
    IN  IF first # 0 THEN first ELSE ScanPartial(items, item_text, 1)

\* !ha todo <list> [<operation> [<text>]], up to the reply or to the await of
\* todo.get_items for done and undo
TodoCommand(states, list_name, operation, item_text, raises) ==
    LET found     == FindEntitiesByAlias(states, Lower(list_name))
        todo_list == found.value[1].entity_id
    IN  /\ ha_pc = "idle"
        /\ ha_request' = [kind |-> "todo", states |-> states, name |-> list_name,
                          operation |-> operation, item_text |-> item_text,
                          matching |-> found.value, items |-> <<>>]
        /\ IF found.raised
           THEN Reply("error") /\ UNCHANGED service_calls
           ELSE IF found.value = <<>>
           THEN Reply("not_found") /\ UNCHANGED service_calls
           ELSE IF Len(found.value) > 1
           THEN /\ service_calls' =
                      [k \in DOMAIN found.value |->
                          Call("todo", "get_items", found.value[k].entity_id, <<>>, "", FALSE)]
                /\ Reply("multiple")
           ELSE IF operation = ""
           THEN /\ service_calls' = <<Call("todo", "get_items", todo_list, <<>>, "", FALSE)>>
                /\ Reply("items")
           ELSE IF operation \notin {"add"} \cup DoneOperations \cup UndoOperations
           THEN Reply("unknown_operation") /\ UNCHANGED service_calls
           ELSE IF item_text = <<>>
           THEN Reply("specify_item") /\ UNCHANGED service_calls
           ELSE IF operation = "add"
           THEN /\ service_calls' = <<Call("todo", "add_item", todo_list, item_text, "", raises)>>
                /\ Reply(IF raises THEN "error" ELSE "added")
           ELSE /\ service_calls' = <<Call("todo", "get_items", todo_list, <<>>, "", FALSE)>>
                /\ ha_pc' = "get_items"
                /\ ha_index' = 0
                /\ ha_reply' = ""
        /\ UNCHANGED notHaVars

\* status="completed" for done, status="needs_action" for undo
TargetStatus(operation) == IF operation \in DoneOperations THEN "completed" ELSE "needs_action"

\* todo.get_items returns the items or raises; the item is selected and, if it
\* is not in the target status already, updated
GetItemsReturn(items, fails, raises) ==
    LET matching_item == SelectItem(items, ha_request.item_text)
        target        == TargetStatus(ha_request.operation)
        todo_list     == ha_request.matching[1].entity_id
    IN  /\ ha_pc = "get_items"
        /\ ha_request' = [ha_request EXCEPT !.items = IF fails THEN <<>> ELSE items]
        /\ IF fails
           THEN Reply("get_items_failed") /\ UNCHANGED service_calls
           ELSE IF matching_item = 0
           THEN Reply("item_not_found") /\ UNCHANGED service_calls
           ELSE IF items[matching_item].status = target
           THEN Reply("already") /\ UNCHANGED service_calls
           ELSE IF items[matching_item].uid = <<>>
           THEN Reply("missing_uid") /\ UNCHANGED service_calls
           ELSE /\ service_calls' =
                      Append(service_calls,
                             Call("todo", "update_item", todo_list, items[matching_item].uid,
                                  target, raises))
                /\ Reply(IF raises THEN "error" ELSE "marked")
        /\ UNCHANGED notHaVars

\* int(button_input) for a string of digits
RECURSIVE PyInt(_)
PyInt(w) ==
    LET digits == <<"0", "1", "2", "3", "4", "5", "6", "7", "8", "9">>
    IN  IF w = <<>> THEN 0
        ELSE 10 * PyInt(SubSeq(w, 1, Len(w) - 1))
             + (CHOOSE d \in 0..9 : digits[d + 1] = w[Len(w)])

\* "1", "3", "7", "Lamp", "tv", "zzz"
ButtonInputPool == {<<"1">>, <<"3">>, <<"7">>, <<"L", "a", "m", "p">>, <<"t", "v">>, <<"z", "z", "z">>}

\* How a service call ends: it returns, or it raises a ValueError or another
\* exception
CallOutcomes == {"ok", "ValueError", "Exception"}

\* The except ValueError branch of !ha wake: the input is looked up as a name;
\* calls are the service calls made before
WakeByName(states, button_input, outcome, calls) ==
    LET found == FindEntitiesByAlias(states, Lower(button_input))
    IN  /\ ha_request' = [kind |-> "wake", states |-> states, name |-> button_input,
                          matching |-> found.value]
        /\ IF found.raised
           THEN Reply("error") /\ service_calls' = calls
           ELSE IF found.value = <<>>
           THEN Reply("not_found") /\ service_calls' = calls
           ELSE IF Len(found.value) > 1
           THEN Reply("multiple") /\ service_calls' = calls
           ELSE /\ service_calls' =
                      Append(calls, Call("button", "press", found.value[1].entity_id, <<>>, "",
                                         outcome # "ok"))
                /\ Reply(IF outcome = "ok" THEN "sent" ELSE "error")

\* !ha wake <button_name_or_number>: a number presses the button at that
\* position, inside the try whose except ValueError goes on to the lookup by
\* name; first and second are the outcomes of the press calls
WakeCommand(states, button_input, first, second) ==
    /\ ha_pc = "idle"
    /\ IF IsDigit(button_input)
       THEN IF 1 <= PyInt(button_input) /\ PyInt(button_input) <= Len(states)
            THEN LET press == Call("button", "press", states[PyInt(button_input)].entity_id,
                                   <<>>, "", first # "ok")
                 IN  IF first = "ValueError"
                     THEN WakeByName(states, button_input, second, <<press>>)
                     ELSE /\ ha_request' = [kind |-> "wake", states |-> states,
                                            name |-> button_input, matching |-> <<>>]
                          /\ service_calls' = <<press>>
                          /\ Reply(IF first = "ok" THEN "sent" ELSE "error")
            ELSE /\ ha_request' = [kind |-> "wake", states |-> states, name |-> button_input,
                                   matching |-> <<>>]
                 /\ Reply("invalid_number")
                 /\ UNCHANGED service_calls
       ELSE WakeByName(states, button_input, first, <<>>)
    /\ UNCHANGED notHaVars

InitHa ==
    /\ HaIdle
    /\ AliasIdle /\ ChunkIdle /\ ConfigIdle /\ SumIdle /\ CacheIdle /\ SttIdle /\ AdminIdle

NextHa ==
    \/ \E domain \in {"light", "switch"}, name \in HaNamePool, action \in ActionPool :
          \E states \in HaStates(domain) : LightSwitchCommand(domain, states, name, action)
    \/ \E raises \in BOOLEAN : ServiceCallReturn(raises)
    \/ \E states \in TodoStates, list_name \in HaNamePool, operation \in OperationPool,
          item_text \in ItemTextPool, raises \in BOOLEAN :
          TodoCommand(states, list_name, operation, item_text, raises)
    \/ \E items \in ItemLists, fails \in BOOLEAN, raises \in BOOLEAN :
          GetItemsReturn(items, fails, raises)
    \/ \E states \in HaStates("button"), button_input \in ButtonInputPool,
          first \in CallOutcomes, second \in CallOutcomes :
          WakeCommand(states, button_input, first, second)
    \/ HaReturn

\* The Home Assistant commands, one at a time
SpecHa == InitHa /\ [][NextHa]_vars

(***************************************************************************)
(* C25.  The item that done and undo update                                *)
(***************************************************************************)
\* The smallest member of a non-empty set of positions
First(S) == CHOOSE i \in S : \A j \in S : i <= j

\* The item the two-phase rule selects (0 for none): the first with the text
\* as an alias or as its whole summary, else the first containing the text
TwoPhaseChoice(items, item_text) ==
    LET lowered == Lower(item_text)
        exact   == {i \in DOMAIN items :
                       \/ InList(lowered, ExtractAliasesFromName("str", items[i].summary))
                       \/ Lower(items[i].summary) = lowered}
        partial == {i \in DOMAIN items : IsSubstring(lowered, Lower(items[i].summary))}
    IN  IF exact # {} THEN First(exact)
        ELSE IF partial # {} THEN First(partial)
        ELSE 0

UpdateCalls == SelectSeq(service_calls, LAMBDA call : call.service = "update_item")

\* A done or undo command has returned after it got the items of the list
ItemHandled ==
    /\ ha_request.kind = "todo"
    /\ ha_pc = "done"
    /\ ha_request.operation \in DoneOperations \cup UndoOperations
    /\ ha_reply \in {"item_not_found", "already", "missing_uid", "marked", "error"}

\* C25: done and undo select the first item, in list order, that has the text
\* as an exact alias or whose whole summary equals the text without regard to
\* case, and only when there is none the first item whose summary contains the
\* text; when nothing is selected or the selected item already has the target
\* status no todo.update_item call is made, and a call that is made is for
\* the selected item and the target status.
C25_TwoPhaseItemSelection ==
    ItemHandled =>
        LET items  == ha_request.items
            chosen == TwoPhaseChoice(items, ha_request.item_text)
            target == TargetStatus(ha_request.operation)
        IN  /\ (chosen = 0) = (ha_reply = "item_not_found")
            /\ (chosen = 0 \/ items[chosen].status = target) => UpdateCalls = <<>>
            /\ (chosen # 0 /\ items[chosen].status # target /\ items[chosen].uid # <<>>) =>
                  /\ Len(UpdateCalls) = 1
                  /\ UpdateCalls[1].item = items[chosen].uid
                  /\ UpdateCalls[1].status = target
                  /\ UpdateCalls[1].entity_id = ha_request.matching[1].entity_id

\* "done milk" on the items Milky, Buy Milk: Milky contains the text and comes
\* first, Buy Milk has it as an alias and is the one completed
C25_Witness ==
    /\ ItemHandled
    /\ ha_request.operation = "done"
    /\ ha_request.item_text = <<"m", "i", "l", "k">>
    /\ Len(ha_request.items) = 2
    /\ ha_request.items[1] = TodoItem(1, "needs_action")
    /\ ha_request.items[2] = TodoItem(2, "needs_action")
    /\ Len(UpdateCalls) = 1
    /\ UpdateCalls[1].item = ha_request.items[2].uid
    /\ ha_reply = "marked"

(***************************************************************************)
(* C26.  An ambiguous list or button name                                  *)
(***************************************************************************)
StateChangingCalls ==
    SelectSeq(service_calls,
              LAMBDA call : call.service \in {"add_item", "update_item", "press"})

\* C26: for !ha todo and !ha wake, when _find_entities_by_alias returned more
\* than one entity for the name given, no todo.add_item, todo.update_item or
\* button.press call is made for the command, and the reply lists the
\* candidates.
C26_AmbiguousNameCallsNothing ==
    (ha_request.kind \in {"todo", "wake"} /\ Len(ha_request.matching) > 1) =>
        /\ StateChangingCalls = <<>>
        /\ ha_pc = "done" => ha_reply = "multiple"

(***************************************************************************)
(* C27.  The service calls of !ha light and !ha switch                     *)
(***************************************************************************)
\* The calls the command is to make: one for every entity the lookup returns,
\* none without a valid action
ExpectedCalls ==
    LET act   == Lower(ha_request.action)
        found == FindEntitiesByAlias(ha_request.states, Lower(ha_request.name))
    IN  IF act \notin {<<"o", "n">>, <<"o", "f", "f">>} \/ found.raised THEN <<>>
        ELSE [k \in DOMAIN found.value |->
                 [domain |-> ha_request.kind,
                  service |-> IF act = <<"o", "n">> THEN "turn_on" ELSE "turn_off",
                  entity_id |-> found.value[k].entity_id]]

\* C27: !ha light and !ha switch call turn_on or turn_off once for every
\* entity _find_entities_by_alias returned, in the order of the result,
\* whether or not an earlier call raised; they make no call when the action
\* is missing or is neither on nor off, or when nothing matches.
C27_OneCallPerMatch ==
    ha_request.kind \in {"light", "switch"} =>
        /\ Len(service_calls) <= Len(ExpectedCalls)
        /\ \A k \in DOMAIN service_calls :
              /\ service_calls[k].domain = ExpectedCalls[k].domain
              /\ service_calls[k].service = ExpectedCalls[k].service
              /\ service_calls[k].entity_id = ExpectedCalls[k].entity_id
        /\ ha_pc = "calling" => Len(service_calls) = ha_index - 1
        /\ ha_pc = "done" => Len(service_calls) = Len(ExpectedCalls)

\* "switch lamp OFF" has returned: the call for the first switch raised, the
\* call for the second was made and returned
C27_Witness ==
    /\ ha_request.kind = "switch"
    /\ ha_pc = "done"
    /\ Len(service_calls) = 2
    /\ service_calls[1].raised
    /\ ~service_calls[2].raised
    /\ service_calls[2].service = "turn_off"
    /\ service_calls[1].entity_id # service_calls[2].entity_id

(***************************************************************************)
(* C28.  _set_config changes self.config entirely or not at all            *)
(***************************************************************************)
\* C28: a _set_config call that reports success has stored the value and has
\* written the configuration holding it to config.yaml; a call that reports
\* an error (invalid path, invalid setting, failed write) leaves self.config
\* equal to what it was before the call.
C28_SetConfigAllOrNothing ==
    [][\A path \in SettingPaths, value \in SettingValues, write_ok \in BOOLEAN :
          SetConfig(path, value, write_ok) =>
              /\ set_reply' = "updated" =>
                    /\ config'[path[1]][path[2]] = value
                    /\ config_file' = [exists |-> TRUE, content |-> config']
              /\ set_reply' # "updated" => config' = config]_vars

\* After a setting was changed and saved, another call failed to write the
\* file: the configuration is still the saved one
C28_Witness ==
    /\ set_reply = "save_failed"
    /\ config # DefaultConfig
    /\ config_file = [exists |-> TRUE, content |-> config]

(***************************************************************************)
(* STT plugin: handle_downloaded_audio and the set processing_audio.       *)
(***************************************************************************)
\* Milliseconds the clock of the model advances
MaxMillis == 3

AudioFiles == {"a.ogg", "b.ogg"}

\* processing_id = f"{filename}_{int(time.time() * 1000)}"
ProcessingId(filename, millis) == [filename |-> filename, millis |-> millis]

\* Time passes
Tick ==
    /\ clock < MaxMillis
    /\ clock' = clock + 1
    /\ UNCHANGED <<processing_audio, transcribing>>
    /\ UNCHANGED notSttVars

\* handle_downloaded_audio(filename, ...) up to the await of
\* _transcribe_audio: an id found in the set makes the call return None, and
\* the finally clause of the call then removes that id from the set
AudioStart(filename) ==
    LET processing_id == ProcessingId(filename, clock)
    IN  /\ BagCardinality(transcribing) < MaxInFlight
        /\ IF processing_id \in processing_audio
           THEN /\ processing_audio' = processing_audio \ {processing_id}
                /\ UNCHANGED transcribing
           ELSE /\ processing_audio' = processing_audio \cup {processing_id}
                /\ transcribing' = transcribing (+) SetToBag({processing_id})
        /\ UNCHANGED clock
        /\ UNCHANGED notSttVars

\* _transcribe_audio returns or raises: the call returns through its finally
\* clause
TranscribeReturn(processing_id) ==
    /\ BagIn(processing_id, transcribing)
    /\ transcribing' = transcribing (-) SetToBag({processing_id})
    /\ processing_audio' = processing_audio \ {processing_id}
    /\ UNCHANGED clock
    /\ UNCHANGED notSttVars

InitStt ==
    /\ SttIdle
    /\ AliasIdle /\ ChunkIdle /\ ConfigIdle /\ SumIdle /\ CacheIdle /\ HaIdle /\ AdminIdle

NextStt ==
    \/ Tick
    \/ \E filename \in AudioFiles : AudioStart(filename)
    \/ \E processing_id \in BagToSet(transcribing) : TranscribeReturn(processing_id)

SpecStt == InitStt /\ [][NextStt]_vars

(***************************************************************************)
(* C29.  processing_audio and duplicate calls                              *)
(***************************************************************************)
\* The files with a call waiting for its transcription, one element per call
FilesInFlight ==
    BagOfAll(LAMBDA processing_id : processing_id.filename, transcribing)

\* C29: no file has two handle_downloaded_audio calls transcribing it at the
\* same time (the second call returns None), the entry of every call in
\* flight is in processing_audio, and processing_audio is empty whenever no
\* call is in flight.
C29_NoDuplicateTranscription ==
    /\ \A filename \in AudioFiles : CopiesIn(filename, FilesInFlight) <= 1
    /\ \A processing_id \in BagToSet(transcribing) : processing_id \in processing_audio
    /\ transcribing = EmptyBag => processing_audio = {}

(***************************************************************************)
(* SimpleX plugin: !admin add and !admin remove.  The admin manager is     *)
(* the bot's, outside the plugins: it is taken to hold a set of names,     *)
(* with is_admin a membership test and add_admin, remove_admin changing    *)
(* the set by the one name given.                                          *)
(***************************************************************************)
\* Display names; "" as <username> stands for a command without the argument
Users == {"alice", "bob", "carol", "dave"}

\* self.admin_manager.is_admin(name)
IsAdmin(name) == name \in admins

\* self.admin_manager.remove_admin(username): whether it removed the name
RemoveAdmin(username) ==
    /\ admins' = admins \ {username}
    /\ admin_reply' = IF username \in admins THEN "removed" ELSE "remove_failed"

\* self.admin_manager.add_admin(username)
AddAdmin(username) ==
    /\ admins' = admins \cup {username}
    /\ admin_reply' = "added"

\* !admin add <username> sent by issuer
AdminAdd(issuer, username) ==
    /\ IF ~IsAdmin(issuer)
       THEN admin_reply' = "access_denied" /\ UNCHANGED admins
       ELSE IF username = ""
       THEN admin_reply' = "usage" /\ UNCHANGED admins
       ELSE AddAdmin(username)
    /\ remove_called' = ""
    /\ UNCHANGED notAdminVars

\* A !admin remove without the check of the issuer's own name
AdminRemove_NoSelfCheck(issuer, username) ==
    /\ IF ~IsAdmin(issuer)
       THEN admin_reply' = "access_denied" /\ remove_called' = "" /\ UNCHANGED admins
       ELSE IF username = ""
       THEN admin_reply' = "usage" /\ remove_called' = "" /\ UNCHANGED admins
       ELSE RemoveAdmin(username) /\ remove_called' = username
    /\ UNCHANGED notAdminVars

\* !admin remove <username> sent by issuer (context.user_display_name)
AdminRemove(issuer, username) ==
    /\ IF ~IsAdmin(issuer)
       THEN admin_reply' = "access_denied" /\ remove_called' = "" /\ UNCHANGED admins
       ELSE IF username = ""
       THEN admin_reply' = "usage" /\ remove_called' = "" /\ UNCHANGED admins
       ELSE IF username = issuer
       THEN admin_reply' = "cannot_remove_self" /\ remove_called' = "" /\ UNCHANGED admins
       ELSE RemoveAdmin(username) /\ remove_called' = username
    /\ UNCHANGED notAdminVars

InitAdmin ==
    /\ admins \in SUBSET Users \ {{}}
    /\ admin_reply = ""
    /\ remove_called = ""
    /\ AliasIdle /\ ChunkIdle /\ ConfigIdle /\ SumIdle /\ CacheIdle /\ HaIdle /\ SttIdle

NextAdmin ==
    \/ \E issuer \in Users, username \in Users \cup {""} : AdminAdd(issuer, username)
    \/ \E issuer \in Users, username \in Users \cup {""} : AdminRemove(issuer, username)

SpecAdmin == InitAdmin /\ [][NextAdmin]_vars

(***************************************************************************)
(* C30.  !admin remove never removes its issuer                            *)
(***************************************************************************)
\* C30: !admin remove changes nothing when its issuer is not an admin, does
\* not call remove_admin when the username is the issuer's display name, and
\* leaves its issuer an admin; hence the set of admins, not empty at the
\* start, never becomes empty.
C30_IssuerStaysAdmin ==
    /\ [](admins # {})
    /\ [][\A issuer \in Users, username \in Users \cup {""} :
             AdminRemove(issuer, username) =>
                 /\ ~IsAdmin(issuer) => (admins' = admins /\ remove_called' = "")
                 /\ username = issuer => (admins' = admins /\ remove_called' = "")
                 /\ IsAdmin(issuer) => issuer \in admins']_vars

\* The only admin has tried to remove their own name and is refused without
\* a call of remove_admin
C30_Witness ==
    /\ Cardinality(admins) = 1
    /\ admin_reply = "cannot_remove_self"
    /\ remove_called = ""

====
